---- MODULE Spec2Model ----
(***************************************************************************)
(* A model of the sipuri package: the percent-escaper, the key/value       *)
(* stores, the URI parser and the URI serialiser.                          *)
(*                                                                         *)
(* A Go string is a sequence of bytes (naturals below 256).  A function    *)
(* that can fail returns a record; a run-time panic (index out of range)   *)
(* is an outcome of its own, `panic`, which every caller propagates.       *)
(***************************************************************************)
EXTENDS Integers, Sequences, FiniteSets, TLC

VARIABLES
    input,    \* the text handed to Parse and ParseLazy
    res,      \* what Parse(input) returned
    lres,     \* what ParseLazy(input) returned
    out,      \* what String() returned on the eager record
    lout,     \* what String() returned on the lazy record
    re,       \* what Parse returned on the text String() produced
    errv,     \* an error value under inspection by errors.Is
    target,   \* the target error handed to errors.Is
    isRes,    \* what errors.Is(errv, target) returned
    rawText,     \* the raw block handed to the Decode of both stores
    sepText,     \* the separator handed to the Decode of both stores
    eagerStore,  \* what Decode left of a KeyValuePairs
    lazyStore,   \* what Decode left of a LazyStore
    eagerRead,   \* the last read of the KeyValuePairs
    lazyRead,    \* the same read of the LazyStore
    escapeInput,     \* the text handed to Unescape and UnescapeErrorChecker
    unescapeResult,  \* what Unescape(escapeInput) returned
    checkerResult,   \* what UnescapeErrorChecker(escapeInput) returned
    encodeInput,     \* the map handed to EncodeURLValues
    encodeResult,    \* what EncodeURLValues(encodeInput) returned
    sipURI,          \* a URI built with New
    transportResult, \* what sipURI.Transport() returned
    portResult,      \* what sipURI.Port() returned
    escapeMode,      \* the mode handed to escape along with escapeInput
    escapeResult,    \* what escape(escapeInput, escapeMode) returned
    decodeResult,    \* what DecodeURLValues returned on the text of encodeResult
    nextText,        \* the raw block of a second Decode on the same LazyStore
    decodeStep,      \* how far the caller of the two Decodes has come
    shared,          \* a LazyStore that several readers hold a pointer to
    readers,         \* each reader's method, position in it, registers and result
    decodes          \* how many times the raw block of shared was decoded

parseVars == <<input, res, lres, out, lout, re>>
errVars == <<errv, target, isRes>>
storeVars == <<rawText, sepText, eagerStore, lazyStore, eagerRead, lazyRead>>
escapeVars == <<escapeInput, unescapeResult, checkerResult>>
encodeVars == <<encodeInput, encodeResult>>
uriVars == <<sipURI, transportResult, portResult>>
escaperVars == <<escapeMode, escapeResult>>
redecodeVars == <<nextText, decodeStep>>
readerVars == <<shared, readers, decodes>>
otherVars == <<escaperVars, decodeResult, redecodeVars, readerVars>>

vars == <<parseVars, errVars, storeVars, escapeVars, encodeVars, uriVars, otherVars>>

(***************************************************************************)
(* Bytes the code names.                                                   *)
(***************************************************************************)
PERCENT == 37
AMP == 38
COLON == 58
SEMI == 59
EQUALS == 61
QUESTION == 63
AT == 64
LBRACKET == 91
RBRACKET == 93

SIPProtocol == <<115, 105, 112, 58>>          \* "sip:"
SIPSProtocol == <<115, 105, 112, 115, 58>>    \* "sips:"

SIP == FALSE
SIPS == TRUE

encodeHost == 1
encodeUserPassword == 2
encodeQueryComponent == 3

(***************************************************************************)
(* The strings package, as far as the code uses it.                        *)
(***************************************************************************)
\* s[from:] of Go, from counted from 0.
Tail0(s, from) == SubSeq(s, from + 1, Len(s))

\* s[from:to] of Go.
Slice(s, from, to) == SubSeq(s, from + 1, to)

HasPrefix(s, prefix) ==
    /\ Len(s) >= Len(prefix)
    /\ SubSeq(s, 1, Len(prefix)) = prefix

\* strings.IndexByte, 1-based; 0 when the byte does not occur.
IndexByte(s, c) ==
    IF \E i \in 1..Len(s) : s[i] = c
    THEN CHOOSE i \in 1..Len(s) : s[i] = c /\ \A j \in 1..(i - 1) : s[j] # c
    ELSE 0

\* strings.LastIndexByte, 1-based; 0 when the byte does not occur.
LastIndexByte(s, c) ==
    IF \E i \in 1..Len(s) : s[i] = c
    THEN CHOOSE i \in 1..Len(s) : s[i] = c /\ \A j \in (i + 1)..Len(s) : s[j] # c
    ELSE 0

\* strings.Count for a one-byte separator.
CountByte(s, c) == Cardinality({i \in 1..Len(s) : s[i] = c})

\* strings.Cut for a one-byte separator.
Cut(s, c) ==
    LET at(i) ==
            IF i = 0
            THEN [before |-> s, after |-> <<>>, found |-> FALSE]
            ELSE [before |-> SubSeq(s, 1, i - 1), after |-> Tail0(s, i), found |-> TRUE]
    IN  at(IndexByte(s, c))

\* strings.Split for a one-byte separator: always at least one piece.
RECURSIVE Split(_, _)
Split(s, c) ==
    LET at(i) == IF i = 0 THEN <<s>> ELSE <<SubSeq(s, 1, i - 1)>> \o Split(Tail0(s, i), c)
    IN  at(IndexByte(s, c))

\* Byte-wise order of Go strings: a < b.
RECURSIVE StrLess(_, _)
StrLess(a, b) ==
    IF Len(b) = 0 THEN FALSE
    ELSE IF Len(a) = 0 THEN TRUE
    ELSE IF a[1] # b[1] THEN a[1] < b[1]
    ELSE StrLess(Tail(a), Tail(b))

\* sort.Strings over the keys of a map.
RECURSIVE SortStrings(_)
SortStrings(S) ==
    IF S = {} THEN <<>>
    ELSE LET m == CHOOSE x \in S : \A y \in S \ {x} : StrLess(x, y)
         IN  <<m>> \o SortStrings(S \ {m})

\* n zero bytes: what make([]byte, n) holds before it is written.
Zeros(n) == [i \in 1..n |-> 0]

(***************************************************************************)
(* The byte-class escaper.                                                 *)
(***************************************************************************)
IsAlnum(char) ==
    \/ 97 <= char /\ char <= 122
    \/ 65 <= char /\ char <= 90
    \/ 48 <= char /\ char <= 57

\* '!', '$', '&', '\'', '(', ')', '*', '+', ',', ';', '=', ':', '[', ']', '<', '>', '"'
HostAllowed == {33, 36, 38, 39, 40, 41, 42, 43, 44, 59, 61, 58, 91, 93, 60, 62, 34}

\* '-', '_', '.', '~'
Mark == {45, 95, 46, 126}

\* '$', '&', '+', ',', '/', ':', ';', '=', '?', '@'
Reserved == {36, 38, 43, 44, 47, 58, 59, 61, 63, 64}

\* An escaper that leaves '=' as it is in every mode.
shouldEscapeEqualsPlain(mode, char) ==
    IF IsAlnum(char) THEN FALSE
    ELSE IF char = 61 THEN FALSE
    ELSE IF mode = encodeHost /\ char \in HostAllowed THEN FALSE
    ELSE IF char \in Mark THEN FALSE
    ELSE IF char \in Reserved /\ mode = encodeUserPassword
         THEN char = 64 \/ char = 47 \/ char = 63 \/ char = 58
    ELSE TRUE

shouldEscape(mode, char) ==
    IF IsAlnum(char) THEN FALSE
    ELSE IF mode = encodeHost /\ char \in HostAllowed THEN FALSE
    ELSE IF char \in Mark THEN FALSE
    ELSE IF char \in Reserved /\ mode = encodeUserPassword
         THEN char = 64 \/ char = 47 \/ char = 63 \/ char = 58
    ELSE TRUE

upperhex == <<48, 49, 50, 51, 52, 53, 54, 55, 56, 57, 65, 66, 67, 68, 69, 70>>

\* The bytes escapeInto writes for input: it always asks the query-component
\* mode, whatever mode its caller counted with.
RECURSIVE escapeBytes(_)
escapeBytes(inp) ==
    IF inp = <<>> THEN <<>>
    ELSE LET c == inp[1]
         IN  (IF shouldEscape(encodeQueryComponent, c)
              THEN <<PERCENT, upperhex[(c \div 16) + 1], upperhex[(c % 16) + 1]>>
              ELSE <<c>>) \o escapeBytes(Tail(inp))

\* escapeInto(input, offset, target): buf is target as written so far, capacity
\* its length.  A write at an index >= capacity panics.
escapeInto(inp, offset, buf, capacity) ==
    LET write(w) ==
            IF offset + Len(w) > capacity
            THEN [panic |-> TRUE, offset |-> offset, buf |-> buf]
            ELSE [panic |-> FALSE, offset |-> offset + Len(w), buf |-> buf \o w]
    IN  write(escapeBytes(inp))

hexCountOf(inp, mode) == Cardinality({i \in 1..Len(inp) : shouldEscape(mode, inp[i])})

escape(inp, mode) ==
    LET result(r, required) ==
            IF r.panic THEN [panic |-> TRUE, s |-> <<>>]
            ELSE [panic |-> FALSE, s |-> r.buf \o Zeros(required - r.offset)]
        make(required) == result(escapeInto(inp, 0, <<>>, required), required)
        count(hexCount) ==
            IF hexCount = 0 THEN [panic |-> FALSE, s |-> inp]
            ELSE make(Len(inp) + 2 * hexCount)
    IN  count(hexCountOf(inp, mode))

hexCharErrorBit == 16
alphabetStartIdx == 10

\* A digit check that knows no lower-case digits.
checkValidHexCharacterUpperOnly(hex) ==
    IF 65 <= hex /\ hex <= 70 THEN hex - 65 + alphabetStartIdx
    ELSE IF 48 <= hex /\ hex <= 57 THEN hex - 48
    ELSE hexCharErrorBit

checkValidHexCharacter(hex) ==
    IF 65 <= hex /\ hex <= 70 THEN hex - 65 + alphabetStartIdx
    ELSE IF 97 <= hex /\ hex <= 102 THEN hex - 97 + alphabetStartIdx
    ELSE IF 48 <= hex /\ hex <= 57 THEN hex - 48
    ELSE hexCharErrorBit

\* (gByte|lByte)&hexCharErrorBit != 0, on values of at most 16.
HexError(gByte, lByte) ==
    \/ (gByte \div hexCharErrorBit) % 2 = 1
    \/ (lByte \div hexCharErrorBit) % 2 = 1

\* The outcomes of Unescape and of its checker: a string, an EscapeError
\* carrying a fragment, or a panic.
UnescOk(s) == [panic |-> FALSE, err |-> FALSE, s |-> s, frag |-> <<>>]
UnescErr(frag) == [panic |-> FALSE, err |-> TRUE, s |-> <<>>, frag |-> frag]
UnescPanic == [panic |-> TRUE, err |-> FALSE, s |-> <<>>, frag |-> <<>>]

\* The counting loop of Unescape from index i (0-based): the number of '%',
\* or -1 and the fragment when a '%' has fewer than two bytes after it.
RECURSIVE unescapeCount(_, _, _)
unescapeCount(inp, i, hexCount) ==
    IF i >= Len(inp) THEN [bad |-> FALSE, hexCount |-> hexCount, frag |-> <<>>]
    ELSE IF inp[i + 1] = PERCENT
         THEN IF i + 2 >= Len(inp)
              THEN [bad |-> TRUE, hexCount |-> hexCount + 1, frag |-> Tail0(inp, i)]
              ELSE unescapeCount(inp, i + 3, hexCount + 1)
         ELSE unescapeCount(inp, i + 1, hexCount)

\* unescapeInto from position pos (0-based), buf the bytes written so far into
\* a target of the given capacity.
RECURSIVE unescapeInto(_, _, _, _)
unescapeInto(inp, pos, buf, capacity) ==
    LET triplet(gByte, lByte) ==
            IF HexError(gByte, lByte)
            THEN UnescErr(Slice(inp, pos, pos + 3))
            ELSE IF Len(buf) >= capacity THEN UnescPanic
            ELSE unescapeInto(inp, pos + 3,
                     Append(buf, (gByte * 16 + lByte) % 256), capacity)
    IN  IF pos >= Len(inp) THEN UnescOk(buf)
        ELSE IF inp[pos + 1] = PERCENT
             THEN IF pos + 2 >= Len(inp) THEN UnescPanic
                  ELSE triplet(checkValidHexCharacter(inp[pos + 2]),
                               checkValidHexCharacter(inp[pos + 3]))
             ELSE IF Len(buf) >= capacity THEN UnescPanic
             ELSE unescapeInto(inp, pos + 1, Append(buf, inp[pos + 1]), capacity)

Unescape(inp) ==
    LET result(r, required) ==
            IF r.panic \/ r.err THEN r
            ELSE UnescOk(r.s \o Zeros(required - Len(r.s)))
        make(required) == result(unescapeInto(inp, 0, <<>>, required), required)
        counted(cnt) ==
            IF cnt.bad THEN UnescErr(cnt.frag)
            ELSE IF cnt.hexCount = 0 THEN UnescOk(inp)
            ELSE make(Len(inp) - 2 * cnt.hexCount)
    IN  counted(unescapeCount(inp, 0, 0))

\* The scanning loop of UnescapeErrorChecker from position pos (0-based).
RECURSIVE checkerLoop(_, _)
checkerLoop(inp, pos) ==
    LET triplet(gByte, lByte) ==
            IF HexError(gByte, lByte)
            THEN UnescErr(Slice(inp, pos, pos + 3))
            ELSE checkerLoop(inp, pos + 3)
    IN  IF pos >= Len(inp) THEN UnescOk(<<>>)
        ELSE IF inp[pos + 1] = PERCENT
             THEN IF pos + 2 >= Len(inp) THEN UnescPanic
                  ELSE triplet(checkValidHexCharacter(inp[pos + 2]),
                               checkValidHexCharacter(inp[pos + 3]))
             ELSE checkerLoop(inp, pos + 1)

\* input[l-1] and input[l-2] are read before anything else: an empty input, and
\* a one-byte input other than "%", index out of range.
UnescapeErrorChecker(inp) ==
    LET l == Len(inp)
    IN  IF l = 0 THEN UnescPanic
        ELSE IF inp[l] = PERCENT THEN UnescErr(<<PERCENT>>)
        ELSE IF l = 1 THEN UnescPanic
        ELSE IF inp[l - 1] = PERCENT THEN UnescErr(Tail0(inp, l - 2))
        ELSE checkerLoop(inp, 0)

(***************************************************************************)
(* Errors.                                                                 *)
(***************************************************************************)
NilError == [type |-> "nil"]

ErrInvalidScheme == [type |-> "ErrInvalidScheme"]

Unspecified == "Unspecified"
MissingUser == "MissingUser"
MissingHost == "MissingHost"
MalformedUser == "MalformedUser"
MalformedHost == "MalformedHost"
MalformedParams == "MalformedParams"
MalformedHeaders == "MalformedHeaders"

MalformCause ==
    {Unspecified, MissingUser, MissingHost, MalformedUser, MalformedHost,
     MalformedParams, MalformedHeaders}

\* A MalformedURIError that names the cause and drops the error underneath.
MalformedURIErrorBare(cause, wrapped) ==
    [type |-> "MalformedURIError", Cause |-> cause, Err |-> NilError]

MalformedURIError(cause, wrapped) ==
    [type |-> "MalformedURIError", Cause |-> cause, Err |-> wrapped]

EscapeError(frag) == [type |-> "EscapeError", frag |-> frag]

\* The *net.AddrError that net.SplitHostPort returns.
AddrError(why, addr) == [type |-> "AddrError", Err |-> why, Addr |-> addr]

(***************************************************************************)
(* The key/value stores.  A store value carries its variant; isNil tells   *)
(* whether its KeyValuePairs map is the nil map.                           *)
(***************************************************************************)
NilMap == <<>>

EmptyStore ==
    [kind |-> "empty", isNil |-> TRUE, m |-> NilMap, input |-> <<>>, separator |-> <<>>]

KeyValuePairs(isNil, m) ==
    [kind |-> "eager", isNil |-> isNil, m |-> m, input |-> <<>>, separator |-> <<>>]

LazyStore(isNil, m, inp, separator) ==
    [kind |-> "lazy", isNil |-> isNil, m |-> m, input |-> inp, separator |-> separator]

\* strings.Split(input, separator): with an empty separator the input is cut
\* after every byte (the model's bytes are one-byte characters there).
SplitSep(inp, separator) ==
    IF separator = <<>> THEN [i \in 1..Len(inp) |-> <<inp[i]>>]
    ELSE Split(inp, separator[1])

\* An append that keeps no empty value.
MapAppendNonEmpty(m, key, value) ==
    IF value = <<>> THEN m
    ELSE IF key \in DOMAIN m
    THEN [m EXCEPT ![key] = Append(@, value)]
    ELSE (key :> <<value>>) @@ m

\* result[key] = append(result[key], value)
MapAppend(m, key, value) ==
    IF key \in DOMAIN m
    THEN [m EXCEPT ![key] = Append(@, value)]
    ELSE (key :> <<value>>) @@ m

\* The loop of DecodeURLValues over the pairs not yet read.
RECURSIVE decodePairs(_, _)
decodePairs(pairs, result) ==
    LET failed(panic, err) == [panic |-> panic, err |-> err, isNil |-> TRUE, m |-> NilMap]
        withValue(key, value) ==
            IF value.panic THEN failed(TRUE, NilError)
            ELSE IF value.err THEN failed(FALSE, EscapeError(value.frag))
            ELSE decodePairs(Tail(pairs), MapAppend(result, key.s, value.s))
        withKey(kv, key) ==
            IF key.panic THEN failed(TRUE, NilError)
            ELSE IF key.err THEN failed(FALSE, EscapeError(key.frag))
            ELSE withValue(key, Unescape(kv.after))
        withPair(kv) == withKey(kv, Unescape(kv.before))
    IN  IF pairs = <<>>
        THEN [panic |-> FALSE, err |-> NilError, isNil |-> FALSE, m |-> result]
        ELSE withPair(Cut(pairs[1], EQUALS))

DecodeURLValues(inp, separator) == decodePairs(SplitSep(inp, separator), <<>>)

\* The bytes the writing loop of EncodeURLValues produces for the values of one
\* key; first tells whether nothing has been written yet (pos = 0).
RECURSIVE encodeVals(_, _, _)
encodeVals(key, vals, first) ==
    IF vals = <<>> THEN <<>>
    ELSE (IF first THEN <<>> ELSE <<AMP>>)
         \o escapeBytes(key) \o <<EQUALS>> \o escapeBytes(vals[1])
         \o encodeVals(key, Tail(vals), FALSE)

RECURSIVE encodeKeys(_, _, _)
encodeKeys(keys, m, first) ==
    LET next(w) == w \o encodeKeys(Tail(keys), m, first /\ w = <<>>)
    IN  IF keys = <<>> THEN <<>>
        ELSE next(encodeVals(keys[1], m[keys[1]], first))

RECURSIVE SumSeq(_)
SumSeq(s) == IF s = <<>> THEN 0 ELSE s[1] + SumSeq(Tail(s))

\* charCount + 2*hexCount + 2*keyValuesCount - 1
encodeRequired(keys, m) ==
    LET q(s) == Len(s) + 2 * hexCountOf(s, encodeQueryComponent)
        perKey(k) == Len(m[k]) * q(k) + SumSeq([i \in 1..Len(m[k]) |-> q(m[k][i])])
                     + 2 * Len(m[k])
    IN  SumSeq([i \in 1..Len(keys) |-> perKey(keys[i])]) - 1

EncodeURLValues(m) ==
    LET result(required, w) ==
            IF required < 0 \/ Len(w) > required THEN [panic |-> TRUE, s |-> <<>>]
            ELSE [panic |-> FALSE, s |-> w \o Zeros(required - Len(w))]
        sorted(keys) == result(encodeRequired(keys, m), encodeKeys(keys, m, TRUE))
    IN  IF DOMAIN m = {} THEN [panic |-> FALSE, s |-> <<>>]
        ELSE sorted(SortStrings(DOMAIN m))

\* (m *KeyValuePairs).Decode
KeyValuePairsDecode(inp, separator) ==
    LET assign(d) == [panic |-> d.panic, err |-> d.err, store |-> KeyValuePairs(d.isNil, d.m)]
    IN  assign(DecodeURLValues(inp, separator))

KeyValuePairsGet(m, isNil, key) ==
    IF isNil THEN <<>>
    ELSE IF key \notin DOMAIN m THEN <<>>
    ELSE IF Len(m[key]) = 0 THEN <<>>
    ELSE m[key][1]

KeyValuePairsLen(m) == Cardinality(DOMAIN m)

KeyValuePairsEmpty(m) == Cardinality(DOMAIN m) = 0

\* (s *LazyStore).Decode
LazyStoreDecode(s, inp, separator) ==
    LET checked(chk) ==
            [panic |-> chk.panic,
             err   |-> IF chk.err THEN EscapeError(chk.frag) ELSE NilError,
             store |-> LazyStore(s.isNil, s.m, inp, separator)]
    IN  checked(UnescapeErrorChecker(inp))

\* (s *LazyStore).load: the store afterwards, and whether the call panicked.
LazyStoreLoad(s) ==
    LET assign(d) ==
            IF d.panic THEN [panic |-> TRUE, store |-> s]
            ELSE [panic |-> FALSE, store |-> LazyStore(d.isNil, d.m, <<>>, <<>>)]
    IN  IF ~s.isNil THEN [panic |-> FALSE, store |-> s]
        ELSE assign(DecodeURLValues(s.input, s.separator))

\* The KeyValueStore interface: each method gives the value returned and the
\* store as the call leaves it.
StoreEmpty(s) ==
    IF s.kind = "empty" THEN TRUE
    ELSE IF s.kind = "eager" THEN KeyValuePairsEmpty(s.m)
    ELSE IF ~s.isNil THEN KeyValuePairsEmpty(s.m)
    ELSE s.input = <<>>

StoreEncode(s) ==
    LET encoded(e, store) == [panic |-> e.panic, s |-> e.s, store |-> store]
        loaded(l) ==
            IF l.panic THEN [panic |-> TRUE, s |-> <<>>, store |-> l.store]
            ELSE encoded(EncodeURLValues(l.store.m), l.store)
    IN  IF s.kind = "empty" THEN [panic |-> FALSE, s |-> <<>>, store |-> s]
        ELSE IF s.kind = "eager" THEN encoded(EncodeURLValues(s.m), s)
        ELSE loaded(LazyStoreLoad(s))

StoreGet(s, key) ==
    LET loaded(l) ==
            IF l.panic THEN [panic |-> TRUE, s |-> <<>>, store |-> l.store]
            ELSE [panic |-> FALSE,
                  s |-> KeyValuePairsGet(l.store.m, l.store.isNil, key),
                  store |-> l.store]
    IN  IF s.kind = "empty" THEN [panic |-> FALSE, s |-> <<>>, store |-> s]
        ELSE IF s.kind = "eager"
        THEN [panic |-> FALSE, s |-> KeyValuePairsGet(s.m, s.isNil, key), store |-> s]
        ELSE loaded(LazyStoreLoad(s))

StoreLen(s) ==
    LET loaded(l) ==
            IF l.panic THEN [panic |-> TRUE, n |-> 0, store |-> l.store]
            ELSE [panic |-> FALSE, n |-> KeyValuePairsLen(l.store.m), store |-> l.store]
    IN  IF s.kind = "empty" THEN [panic |-> FALSE, n |-> 0, store |-> s]
        ELSE IF s.kind = "eager"
        THEN [panic |-> FALSE, n |-> KeyValuePairsLen(s.m), store |-> s]
        ELSE loaded(LazyStoreLoad(s))

(***************************************************************************)
(* The URI record.                                                         *)
(***************************************************************************)
URI(proto, user, pass, host, params, headers, hadPass, hadParam, hadHeader) ==
    [isNil |-> FALSE, proto |-> proto, user |-> user, pass |-> pass, host |-> host,
     params |-> params, headers |-> headers,
     hadPass |-> hadPass, hadParam |-> hadParam, hadHeader |-> hadHeader]

\* URI.Password: the field as parse left it.
Password(sipuri) == sipuri.pass

\* The nil *URI.
NilURI == [isNil |-> TRUE]

\* net.SplitHostPort of the standard library.
NetSplitHostPort(hostport) ==
    LET fail(why) == [err |-> AddrError(why, hostport), host |-> <<>>, port |-> <<>>]
        rest(i, host, j, k) ==
            IF IndexByte(Tail0(hostport, j), LBRACKET) > 0
            THEN fail("unexpected '[' in address")
            ELSE IF IndexByte(Tail0(hostport, k), RBRACKET) > 0
            THEN fail("unexpected ']' in address")
            ELSE [err |-> NilError, host |-> host, port |-> Tail0(hostport, i + 1)]
        bracket(i, end) ==
            IF end < 0 THEN fail("missing ']' in address")
            ELSE IF end + 1 = Len(hostport) THEN fail("missing port in address")
            ELSE IF end + 1 = i THEN rest(i, Slice(hostport, 1, end), 1, end + 1)
            ELSE IF hostport[end + 2] = COLON THEN fail("too many colons in address")
            ELSE fail("missing port in address")
        plain(i, host) ==
            IF IndexByte(host, COLON) > 0 THEN fail("too many colons in address")
            ELSE rest(i, host, 0, 0)
        split(i) ==
            IF i < 0 THEN fail("missing port in address")
            ELSE IF hostport[1] = LBRACKET THEN bracket(i, IndexByte(hostport, RBRACKET) - 1)
            ELSE plain(i, Slice(hostport, 0, i))
    IN  split(LastIndexByte(hostport, COLON) - 1)

\* URI.SplitHostPort
SplitHostPort(host) ==
    LET ipv6       == Len(host) > 0 /\ host[1] = LBRACKET
        colonCount == CountByte(host, COLON)
    IN  IF \/ ~ipv6 /\ colonCount > 0
           \/ ipv6 /\ (colonCount % 2 = 1 \/ host[Len(host)] # RBRACKET)
        THEN NetSplitHostPort(host)
        ELSE [err |-> NilError, host |-> host, port |-> <<>>]

\* The nil KeyValueStore interface value of a record built without that option.
NilStore ==
    [kind |-> "nil", isNil |-> TRUE, m |-> NilMap, input |-> <<>>, separator |-> <<>>]

\* URI.Params and URI.Headers: a nil interface reads as EmptyStore.
Params(u) == IF u.params.kind = "nil" THEN EmptyStore ELSE u.params

Headers(u) == IF u.headers.kind = "nil" THEN EmptyStore ELSE u.headers

\* New(user, host, opts...): secure stands for the option Secure(), params
\* for WithParams(params) (NilStore when the option is not given).
New(user, host, secure, params) ==
    URI(IF secure THEN SIPS ELSE SIP, user, <<>>, host, params, NilStore,
        FALSE, FALSE, FALSE)

\* "transport"
TransportKey == <<116, 114, 97, 110, 115, 112, 111, 114, 116>>

\* "UDP", "TCP", "SCTP", "TLS"
UDP == <<85, 68, 80>>

TCP == <<84, 67, 80>>

SCTP == <<83, 67, 84, 80>>

TLS == <<84, 76, 83>>

\* "5060", "5061"
Port5060 == <<53, 48, 54, 48>>

Port5061 == <<53, 48, 54, 49>>

\* strings.ToUpper on ASCII text (bytes below 128): 'a'..'z' become 'A'..'Z'.
ToUpper(s) == [i \in 1..Len(s) |-> IF 97 <= s[i] /\ s[i] <= 122 THEN s[i] - 32 ELSE s[i]]

\* A Transport() that hands out the parameter as it is written.
TransportAsWritten(sipuri) ==
    LET got(g) ==
            IF g.panic THEN [panic |-> TRUE, s |-> <<>>]
            ELSE IF g.s # <<>> THEN [panic |-> FALSE, s |-> g.s]
            ELSE IF sipuri.proto = SIP THEN [panic |-> FALSE, s |-> UDP]
            ELSE [panic |-> FALSE, s |-> TCP]
    IN  got(StoreGet(Params(sipuri), TransportKey))

\* URI.Transport
Transport(sipuri) ==
    LET got(g) ==
            IF g.panic THEN [panic |-> TRUE, s |-> <<>>]
            ELSE IF g.s # <<>> THEN [panic |-> FALSE, s |-> ToUpper(g.s)]
            ELSE IF sipuri.proto = SIP THEN [panic |-> FALSE, s |-> UDP]
            ELSE [panic |-> FALSE, s |-> TCP]
    IN  got(StoreGet(Params(sipuri), TransportKey))

\* A Port() that does not look at the scheme.
PortByTransport(sipuri) ==
    LET byTransport(t) ==
            IF t.panic THEN t
            ELSE IF t.s \in {UDP, TCP, SCTP} THEN [panic |-> FALSE, s |-> Port5060]
            ELSE IF t.s = TLS THEN [panic |-> FALSE, s |-> Port5061]
            ELSE [panic |-> FALSE, s |-> <<>>]
        withPort(port) ==
            IF port # <<>> THEN [panic |-> FALSE, s |-> port]
            ELSE byTransport(Transport(sipuri))
    IN  withPort(SplitHostPort(sipuri.host).port)

\* URI.Port: the error of SplitHostPort is dropped, the port is then "".
Port(sipuri) ==
    LET byTransport(t) ==
            IF t.panic THEN t
            ELSE IF t.s \in {UDP, TCP, SCTP} THEN [panic |-> FALSE, s |-> Port5060]
            ELSE IF t.s = TLS THEN [panic |-> FALSE, s |-> Port5061]
            ELSE [panic |-> FALSE, s |-> <<>>]
        withPort(port) ==
            IF port # <<>> THEN [panic |-> FALSE, s |-> port]
            ELSE IF sipuri.proto = SIPS THEN [panic |-> FALSE, s |-> Port5061]
            ELSE byTransport(Transport(sipuri))
    IN  withPort(SplitHostPort(sipuri.host).port)

(***************************************************************************)
(* The parser.                                                             *)
(***************************************************************************)
\* A parser that hands out the record it was filling in along with the error.
ReturnedWithRecord(u, err) ==
    [kind |-> "returned",
     uri |-> IF err # NilError
             THEN URI(SIP, <<>>, <<>>, <<>>, NilStore, NilStore, FALSE, FALSE, FALSE)
             ELSE u,
     err |-> err]

Returned(u, err) == [kind |-> "returned", uri |-> u, err |-> err]

Panicked == [kind |-> "panic", uri |-> NilURI, err |-> NilError]

\* Decoding one block (parameters or headers) into the store variant parse picks.
decodeBlock(block, separator, lazy) ==
    IF block = <<>> THEN [panic |-> FALSE, err |-> NilError, store |-> EmptyStore]
    ELSE IF lazy THEN LazyStoreDecode(LazyStore(TRUE, NilMap, <<>>, <<>>), block, separator)
    ELSE KeyValuePairsDecode(block, separator)

\* A parser that decodes the header block into the parameter store.
parseStoresHeadersIntoParams(proto, user, pass, hadPass, host, params, hadParam, headers, hadHeader, lazy) ==
    LET withHeaders(pStore, hStore) ==
            IF hStore.panic THEN Panicked
            ELSE IF hStore.err # NilError
            THEN Returned(NilURI, MalformedURIError(MalformedHeaders, hStore.err))
            ELSE Returned(URI(proto, user, pass, host,
                              IF headers = <<>> THEN pStore.store ELSE hStore.store,
                              EmptyStore, hadPass, hadParam, hadHeader), NilError)
        withParams(pStore) ==
            IF pStore.panic THEN Panicked
            ELSE IF pStore.err # NilError
            THEN Returned(NilURI, MalformedURIError(MalformedParams, pStore.err))
            ELSE withHeaders(pStore, decodeBlock(headers, <<AMP>>, lazy))
    IN  withParams(decodeBlock(params, <<SEMI>>, lazy))

\* parse, from the decoding of the two blocks to the end.
parseStores(proto, user, pass, hadPass, host, params, hadParam, headers, hadHeader, lazy) ==
    LET withHeaders(pStore, hStore) ==
            IF hStore.panic THEN Panicked
            ELSE IF hStore.err # NilError
            THEN Returned(NilURI, MalformedURIError(MalformedHeaders, hStore.err))
            ELSE Returned(URI(proto, user, pass, host, pStore.store, hStore.store,
                              hadPass, hadParam, hadHeader), NilError)
        withParams(pStore) ==
            IF pStore.panic THEN Panicked
            ELSE IF pStore.err # NilError
            THEN Returned(NilURI, MalformedURIError(MalformedParams, pStore.err))
            ELSE withHeaders(pStore, decodeBlock(headers, <<AMP>>, lazy))
    IN  withParams(decodeBlock(params, <<SEMI>>, lazy))

\* parse, from the split of the user-info on ':' to the check of the host's port;
\* the password is kept as written.
parseDecode(proto, uCut, rawHost, params, hadParam, headers, hadHeader, lazy) ==
    LET withSplit(user, host, split) ==
            IF split.err # NilError
            THEN Returned(NilURI, MalformedURIError(MalformedHost, split.err))
            ELSE parseStores(proto, user.s, uCut.after, uCut.found, host.s,
                             params, hadParam, headers, hadHeader, lazy)
        withHost(user, host) ==
            IF host.panic THEN Panicked
            ELSE IF host.err
            THEN Returned(NilURI, MalformedURIError(MalformedHost, EscapeError(host.frag)))
            ELSE withSplit(user, host, SplitHostPort(host.s))
        withUser(user) ==
            IF user.panic THEN Panicked
            ELSE IF user.err
            THEN Returned(NilURI, MalformedURIError(MalformedUser, EscapeError(user.frag)))
            ELSE withHost(user, Unescape(rawHost))
    IN  withUser(Unescape(uCut.before))

\* A parser that takes whatever stands before ';' as the host, also nothing.
parseHostUnchecked(proto, userinfo, qCut, lazy) ==
    LET withHost(sCut) ==
            parseDecode(proto, Cut(userinfo, COLON), sCut.before, sCut.after,
                        sCut.found, qCut.after, qCut.found, lazy)
    IN  withHost(Cut(qCut.before, SEMI))

\* parse, from the split on '?' to the check that the host is not empty.
parseHost(proto, userinfo, qCut, lazy) ==
    LET withHost(sCut) ==
            IF sCut.before = <<>>
            THEN Returned(NilURI, MalformedURIError(MissingHost, NilError))
            ELSE parseDecode(proto, Cut(userinfo, COLON), sCut.before, sCut.after,
                             sCut.found, qCut.after, qCut.found, lazy)
    IN  withHost(Cut(qCut.before, SEMI))

\* A parser that looks for the host before it looks at the user-info.
parseUserHostFirst(proto, hasAt, userinfo, postfix, lazy) ==
    IF postfix = <<>>
    THEN Returned(NilURI, MalformedURIError(MissingHost, NilError))
    ELSE IF hasAt /\ userinfo = <<>>
    THEN Returned(NilURI, MalformedURIError(MissingUser, NilError))
    ELSE parseHost(proto, userinfo, Cut(postfix, QUESTION), lazy)

\* parse, after the split on '@': the checks on the user-info and on what
\* follows it.
parseUser(proto, hasAt, userinfo, postfix, lazy) ==
    IF hasAt /\ userinfo = <<>>
    THEN Returned(NilURI, MalformedURIError(MissingUser, NilError))
    ELSE IF postfix = <<>>
    THEN Returned(NilURI, MalformedURIError(MissingHost, NilError))
    ELSE parseHost(proto, userinfo, Cut(postfix, QUESTION), lazy)

\* Without an '@' the two halves of the cut are swapped: the user-info is empty.
parse(proto, uri, lazy) ==
    LET withAt(atCut) ==
            parseUser(proto, atCut.found,
                      IF atCut.found THEN atCut.before ELSE atCut.after,
                      IF atCut.found THEN atCut.after ELSE atCut.before, lazy)
    IN  withAt(Cut(uri, AT))

Parse(uri) ==
    IF HasPrefix(uri, SIPProtocol) THEN parse(SIP, Tail0(uri, Len(SIPProtocol)), FALSE)
    ELSE IF HasPrefix(uri, SIPSProtocol) THEN parse(SIPS, Tail0(uri, Len(SIPSProtocol)), FALSE)
    ELSE Returned(NilURI, ErrInvalidScheme)

ParseLazy(uri) ==
    IF HasPrefix(uri, SIPProtocol) THEN parse(SIP, Tail0(uri, Len(SIPProtocol)), TRUE)
    ELSE IF HasPrefix(uri, SIPSProtocol) THEN parse(SIPS, Tail0(uri, Len(SIPSProtocol)), TRUE)
    ELSE Returned(NilURI, ErrInvalidScheme)

(***************************************************************************)
(* The serialiser.                                                         *)
(***************************************************************************)
\* The user-info part String() writes: nothing when the user is empty.
stringUserInfo(u) ==
    LET written(user, pass) ==
            IF user.panic THEN [panic |-> TRUE, s |-> <<>>]
            ELSE IF u.pass # <<>> /\ pass.panic THEN [panic |-> TRUE, s |-> <<>>]
            ELSE [panic |-> FALSE,
                  s |-> user.s
                        \o (IF u.hadPass \/ u.pass # <<>> THEN <<COLON>> ELSE <<>>)
                        \o (IF u.pass # <<>> THEN pass.s ELSE <<>>)
                        \o <<AT>>]
    IN  IF u.user = <<>> THEN [panic |-> FALSE, s |-> <<>>]
        ELSE written(escape(u.user, encodeUserPassword), escape(u.pass, encodeUserPassword))

\* String() that writes a delimiter only in front of a block that is not empty.
stringBlockNoFlag(had, store, delimiter) ==
    LET written(enc) ==
            IF enc.panic THEN [panic |-> TRUE, s |-> <<>>, store |-> enc.store]
            ELSE [panic |-> FALSE, s |-> <<delimiter>> \o enc.s, store |-> enc.store]
    IN  IF StoreEmpty(store)
        THEN [panic |-> FALSE, s |-> <<>>, store |-> store]
        ELSE written(StoreEncode(store))

\* One block of String(): the delimiter when the flag is set or the store is
\* not empty, then the encoded store when it is not empty.
stringBlock(had, store, delimiter) ==
    LET written(enc) ==
            IF enc.panic THEN [panic |-> TRUE, s |-> <<>>, store |-> enc.store]
            ELSE [panic |-> FALSE, s |-> <<delimiter>> \o enc.s, store |-> enc.store]
    IN  IF StoreEmpty(store)
        THEN [panic |-> FALSE, s |-> IF had THEN <<delimiter>> ELSE <<>>, store |-> store]
        ELSE written(StoreEncode(store))

\* URI.String: the text, and the record with its stores as the call leaves them
\* (a LazyStore is shared by pointer, so a load done here stays).
String(u) ==
    LET scheme == IF u.proto = SIPS THEN SIPSProtocol ELSE SIPProtocol
        withHeaders(ui, host, p, h) ==
            IF h.panic
            THEN [panic |-> TRUE, s |-> <<>>,
                  uri |-> [u EXCEPT !.params = p.store, !.headers = h.store]]
            ELSE [panic |-> FALSE,
                  s |-> scheme \o ui.s \o host.s \o p.s \o h.s,
                  uri |-> [u EXCEPT !.params = p.store, !.headers = h.store]]
        withParams(ui, host, p) ==
            IF p.panic
            THEN [panic |-> TRUE, s |-> <<>>, uri |-> [u EXCEPT !.params = p.store]]
            ELSE withHeaders(ui, host, p, stringBlock(u.hadHeader, Headers(u), QUESTION))
        withHost(ui, host) ==
            IF ui.panic \/ host.panic THEN [panic |-> TRUE, s |-> <<>>, uri |-> u]
            ELSE withParams(ui, host, stringBlock(u.hadParam, Params(u), SEMI))
    IN  withHost(stringUserInfo(u), escape(u.host, encodeHost))

(***************************************************************************)
(* errors.Is over the error values of the package.                         *)
(***************************************************************************)
\* errors.As(input, &inputMal): of the package's errors only MalformedURIError
\* unwraps, and it is itself the type looked for.
errorsAsMalformed(e) ==
    IF e.type = "MalformedURIError" THEN [ok |-> TRUE, v |-> e]
    ELSE [ok |-> FALSE, v |-> NilError]

\* An Is that matches any MalformedURIError, whatever the two causes.
MalformedURIErrorIsAnyCause(err, inp) == errorsAsMalformed(inp).ok

\* MalformedURIError.Is
MalformedURIErrorIs(err, inp) ==
    LET as(inputMal) ==
            IF inputMal.ok
            THEN inputMal.v.Cause = Unspecified \/ inputMal.v.Cause = err.Cause
            ELSE FALSE
    IN  as(errorsAsMalformed(inp))

\* EscapeError.Is
EscapeErrorIs(e, inp) == inp.type = "EscapeError"

\* errors.Is of the standard library: equality, then the Is method, then Unwrap.
RECURSIVE errorsIs(_, _)
errorsIs(err, tgt) ==
    IF err = NilError \/ tgt = NilError THEN err = tgt
    ELSE IF err = tgt THEN TRUE
    ELSE IF err.type = "MalformedURIError"
    THEN IF MalformedURIErrorIs(err, tgt) THEN TRUE
         ELSE IF err.Err = NilError THEN FALSE
         ELSE errorsIs(err.Err, tgt)
    ELSE IF err.type = "EscapeError" THEN EscapeErrorIs(err, tgt)
    ELSE FALSE

(***************************************************************************)
(* Inputs.                                                                 *)
(***************************************************************************)
\* The longest text after "sip:" that is tried.
MaxLen == 4

\* The longest text that is tried after "sips:" and without a scheme.
MaxAltLen == 2

\* 'A' (a letter and a hex digit), '%', '@', ':', ';', '?', '='
Alphabet == {65, PERCENT, AT, COLON, SEMI, QUESTION, EQUALS}

Texts(n) == UNION {[1..k -> Alphabet] : k \in 0..n}

\* What is written for a user or a password: "A", the escape "%AA" and the cut
\* escape "%A".
Credentials == {<<65>>, <<PERCENT, 65, 65>>, <<PERCENT, 65>>}

\* "sip:" user ":" password "@A" for each pair of credentials.
CredentialInputs ==
    {SIPProtocol \o a \o <<COLON>> \o b \o <<AT, 65>> : a, b \in Credentials}

\* What is written for a parameter block: "A=A" and "AA;A".
ParamBlocks == {<<65, EQUALS, 65>>, <<65, 65, SEMI, 65>>}

\* What is written for a header block: "A=AA", "AA&A" and the cut escape "A%A".
HeaderBlocks == {<<65, EQUALS, 65, 65>>, <<65, 65, AMP, 65>>, <<65, PERCENT, 65>>}

\* "sip:A;" parameters "?" headers for each pair of blocks.
BlockInputs ==
    {SIPProtocol \o <<65, SEMI>> \o p \o <<QUESTION>> \o h : p \in ParamBlocks, h \in HeaderBlocks}

Inputs ==
    {SIPProtocol \o b : b \in Texts(MaxLen)}
    \cup {SIPSProtocol \o b : b \in Texts(MaxAltLen)}
    \cup Texts(MaxAltLen)
    \cup CredentialInputs
    \cup BlockInputs

None == [kind |-> "none"]

\* Nothing was handed to Unescape or its checker.
IdleEscaper ==
    /\ escapeInput = <<>>
    /\ unescapeResult = None
    /\ checkerResult = None

\* Nothing was handed to EncodeURLValues.
IdleEncoder ==
    /\ encodeInput = NilMap
    /\ encodeResult = None

\* No URI was built with New.
IdleAccessors ==
    /\ sipURI = NilURI
    /\ transportResult = None
    /\ portResult = None

\* Nothing was escaped, no encoded map decoded again, no store decoded twice
\* and no store shared.
IdleOthers ==
    /\ escapeMode = 0
    /\ escapeResult = None
    /\ decodeResult = None
    /\ nextText = <<>>
    /\ decodeStep = 0
    /\ shared = None
    /\ readers = <<>>
    /\ decodes = 0

(***************************************************************************)
(* The caller: one text is parsed by both parsers, each record is          *)
(* serialised, and the eager record's text is parsed again.                *)
(***************************************************************************)
Init ==
    /\ input \in Inputs
    /\ res = None
    /\ lres = None
    /\ out = None
    /\ lout = None
    /\ re = None
    /\ errv = NilError
    /\ target = NilError
    /\ isRes = FALSE
    /\ rawText = <<>>
    /\ sepText = <<>>
    /\ eagerStore = None
    /\ lazyStore = None
    /\ eagerRead = None
    /\ lazyRead = None
    /\ IdleEscaper
    /\ IdleEncoder
    /\ IdleAccessors
    /\ IdleOthers

Accepted(r) == r.kind = "returned" /\ r.err = NilError

CallParse ==
    /\ res = None
    /\ res' = Parse(input)
    /\ UNCHANGED <<input, lres, out, lout, re, errVars, storeVars, escapeVars, encodeVars, uriVars, otherVars>>

CallParseLazy ==
    /\ res # None
    /\ lres = None
    /\ lres' = ParseLazy(input)
    /\ UNCHANGED <<input, res, out, lout, re, errVars, storeVars, escapeVars, encodeVars, uriVars, otherVars>>

CallString ==
    /\ lres # None
    /\ Accepted(res)
    /\ out = None
    /\ LET done(r) ==
               /\ out' = [kind |-> IF r.panic THEN "panic" ELSE "returned", s |-> r.s]
               /\ res' = [res EXCEPT !.uri = r.uri]
       IN  done(String(res.uri))
    /\ UNCHANGED <<input, lres, lout, re, errVars, storeVars, escapeVars, encodeVars, uriVars, otherVars>>

CallStringLazy ==
    /\ res # None
    /\ Accepted(lres)
    /\ lout = None
    /\ Accepted(res) => out # None
    /\ LET done(r) ==
               /\ lout' = [kind |-> IF r.panic THEN "panic" ELSE "returned", s |-> r.s]
               /\ lres' = [lres EXCEPT !.uri = r.uri]
       IN  done(String(lres.uri))
    /\ UNCHANGED <<input, res, out, re, errVars, storeVars, escapeVars, encodeVars, uriVars, otherVars>>

CallReparse ==
    /\ out # None
    /\ out.kind = "returned"
    /\ Accepted(lres) => lout # None
    /\ re = None
    /\ re' = Parse(out.s)
    /\ UNCHANGED <<input, res, lres, out, lout, errVars, storeVars, escapeVars, encodeVars, uriVars, otherVars>>

Next ==
    \/ CallParse
    \/ CallParseLazy
    \/ CallString
    \/ CallStringLazy
    \/ CallReparse

Spec == Init /\ [][Next]_vars

(***************************************************************************)
(* The caller of errors.Is: an error value is built and matched against a  *)
(* target.                                                                 *)
(***************************************************************************)
Wrapped ==
    {NilError, EscapeError(<<PERCENT>>), EscapeError(<<PERCENT, 65, COLON>>),
     AddrError("too many colons in address", <<COLON, COLON>>)}

ErrorValues ==
    {MalformedURIError(c, w) : c \in MalformCause, w \in Wrapped} \cup {ErrInvalidScheme}

Targets == {MalformedURIError(c, NilError) : c \in MalformCause} \cup {ErrInvalidScheme}

InitErrors ==
    /\ input = <<>>
    /\ res = None
    /\ lres = None
    /\ out = None
    /\ lout = None
    /\ re = None
    /\ errv \in ErrorValues
    /\ target = NilError
    /\ isRes = FALSE
    /\ rawText = <<>>
    /\ sepText = <<>>
    /\ eagerStore = None
    /\ lazyStore = None
    /\ eagerRead = None
    /\ lazyRead = None
    /\ IdleEscaper
    /\ IdleEncoder
    /\ IdleAccessors
    /\ IdleOthers

CallErrorsIs ==
    /\ target = NilError
    /\ \E t \in Targets :
          /\ target' = t
          /\ isRes' = errorsIs(errv, t)
    /\ UNCHANGED <<parseVars, errv, storeVars, escapeVars, encodeVars, uriVars, otherVars>>

NextErrors == CallErrorsIs

SpecErrors == InitErrors /\ [][NextErrors]_vars

(***************************************************************************)
(* The caller of the stores: one raw block is handed to the Decode of a    *)
(* KeyValuePairs and of a LazyStore, and then both are read alike.         *)
(***************************************************************************)
\* The longest raw block that is tried.
MaxRawLen == 3

\* The keys asked for: "", "A", "AA" and the byte 0xAA.
Keys == {<<>>, <<65>>, <<65, 65>>, <<170>>}

InitStores ==
    /\ input = <<>>
    /\ res = None
    /\ lres = None
    /\ out = None
    /\ lout = None
    /\ re = None
    /\ errv = NilError
    /\ target = NilError
    /\ isRes = FALSE
    /\ rawText \in Texts(MaxRawLen)
    /\ sepText \in {<<SEMI>>, <<AMP>>}
    /\ eagerStore = None
    /\ lazyStore = None
    /\ eagerRead = None
    /\ lazyRead = None
    /\ IdleEscaper
    /\ IdleEncoder
    /\ IdleAccessors
    /\ IdleOthers

\* var temp KeyValuePairs; (&temp).Decode(rawText, sepText)
CallDecode ==
    /\ eagerStore = None
    /\ eagerStore' = KeyValuePairsDecode(rawText, sepText)
    /\ UNCHANGED <<parseVars, errVars, rawText, sepText, lazyStore, eagerRead, lazyRead, escapeVars, encodeVars, uriVars, otherVars>>

\* var temp LazyStore; (&temp).Decode(rawText, sepText)
CallLazyDecode ==
    /\ eagerStore # None
    /\ lazyStore = None
    /\ lazyStore' = LazyStoreDecode(LazyStore(TRUE, NilMap, <<>>, <<>>), rawText, sepText)
    /\ UNCHANGED <<parseVars, errVars, rawText, sepText, eagerStore, eagerRead, lazyRead, escapeVars, encodeVars, uriVars, otherVars>>

\* Both Decode calls returned nil.
Decoded ==
    /\ eagerStore # None /\ ~eagerStore.panic /\ eagerStore.err = NilError
    /\ lazyStore # None /\ ~lazyStore.panic /\ lazyStore.err = NilError

\* One read as its caller sees it: the method, its argument and what it gave
\* (nothing when the call panicked).
Read(op, key, panic, value) ==
    [op |-> op, key |-> key, panic |-> panic, value |-> IF panic THEN <<>> ELSE value]

CallGet ==
    /\ Decoded
    /\ \E key \in Keys :
          LET got(e, l) ==
                  /\ eagerRead' = Read("Get", key, e.panic, e.s)
                  /\ lazyRead' = Read("Get", key, l.panic, l.s)
                  /\ lazyStore' = [lazyStore EXCEPT !.store = l.store]
          IN  got(StoreGet(eagerStore.store, key), StoreGet(lazyStore.store, key))
    /\ UNCHANGED <<parseVars, errVars, rawText, sepText, eagerStore, escapeVars, encodeVars, uriVars, otherVars>>

CallEncode ==
    /\ Decoded
    /\ LET got(e, l) ==
               /\ eagerRead' = Read("Encode", <<>>, e.panic, e.s)
               /\ lazyRead' = Read("Encode", <<>>, l.panic, l.s)
               /\ lazyStore' = [lazyStore EXCEPT !.store = l.store]
       IN  got(StoreEncode(eagerStore.store), StoreEncode(lazyStore.store))
    /\ UNCHANGED <<parseVars, errVars, rawText, sepText, eagerStore, escapeVars, encodeVars, uriVars, otherVars>>

CallLen ==
    /\ Decoded
    /\ LET got(e, l) ==
               /\ eagerRead' = Read("Len", <<>>, e.panic, e.n)
               /\ lazyRead' = Read("Len", <<>>, l.panic, l.n)
               /\ lazyStore' = [lazyStore EXCEPT !.store = l.store]
       IN  got(StoreLen(eagerStore.store), StoreLen(lazyStore.store))
    /\ UNCHANGED <<parseVars, errVars, rawText, sepText, eagerStore, escapeVars, encodeVars, uriVars, otherVars>>

CallEmpty ==
    /\ Decoded
    /\ eagerRead' = Read("Empty", <<>>, FALSE, StoreEmpty(eagerStore.store))
    /\ lazyRead' = Read("Empty", <<>>, FALSE, StoreEmpty(lazyStore.store))
    /\ UNCHANGED <<parseVars, errVars, rawText, sepText, eagerStore, lazyStore, escapeVars, encodeVars, uriVars, otherVars>>

NextStores ==
    \/ CallDecode
    \/ CallLazyDecode
    \/ CallGet
    \/ CallEncode
    \/ CallLen
    \/ CallEmpty

SpecStores == InitStores /\ [][NextStores]_vars

(***************************************************************************)
(* The caller of Unescape: one text is handed to Unescape and to           *)
(* UnescapeErrorChecker.                                                   *)
(***************************************************************************)
\* No text was parsed, no error matched and no store decoded.
IdleParser ==
    /\ input = <<>>
    /\ res = None
    /\ lres = None
    /\ out = None
    /\ lout = None
    /\ re = None
    /\ errv = NilError
    /\ target = NilError
    /\ isRes = FALSE
    /\ rawText = <<>>
    /\ sepText = <<>>
    /\ eagerStore = None
    /\ lazyStore = None
    /\ eagerRead = None
    /\ lazyRead = None

\* The longest text that is handed to Unescape.
MaxEscapedLen == 5

\* '%', the hex digits '9', 'A' and 'f', and 'G', which is no hex digit.
EscapedAlphabet == {PERCENT, 57, 65, 102, 71}

EscapedTexts == UNION {[1..k -> EscapedAlphabet] : k \in 0..MaxEscapedLen}

InitUnescape ==
    /\ IdleParser
    /\ escapeInput \in EscapedTexts
    /\ unescapeResult = None
    /\ checkerResult = None
    /\ IdleEncoder
    /\ IdleAccessors
    /\ IdleOthers

CallUnescape ==
    /\ unescapeResult = None
    /\ unescapeResult' = Unescape(escapeInput)
    /\ UNCHANGED <<parseVars, errVars, storeVars, escapeInput, checkerResult, encodeVars, uriVars, otherVars>>

CallUnescapeErrorChecker ==
    /\ checkerResult = None
    /\ checkerResult' = UnescapeErrorChecker(escapeInput)
    /\ UNCHANGED <<parseVars, errVars, storeVars, escapeInput, unescapeResult, encodeVars, uriVars, otherVars>>

NextUnescape ==
    \/ CallUnescape
    \/ CallUnescapeErrorChecker

SpecUnescape == InitUnescape /\ [][NextUnescape]_vars

(***************************************************************************)
(* The caller of EncodeURLValues: one map is handed to it.                 *)
(***************************************************************************)
\* The most keys a map holds, and the most values a key holds.
MaxEncodeKeys == 2

MaxEncodeValues == 2

\* The keys " ", "A" and the byte 0xAB; the values "", "+" and "A ".
EncodeKeys == {<<32>>, <<65>>, <<171>>}

EncodeValues == {<<>>, <<43>>, <<65, 32>>}

ValueLists == UNION {[1..n -> EncodeValues] : n \in 0..MaxEncodeValues}

\* map[string][]string values: a key may hold no value at all.
EncodeMaps ==
    UNION {[K -> ValueLists] : K \in {S \in SUBSET EncodeKeys : Cardinality(S) <= MaxEncodeKeys}}

InitEncode ==
    /\ IdleParser
    /\ IdleEscaper
    /\ encodeInput \in EncodeMaps
    /\ encodeResult = None
    /\ IdleAccessors
    /\ IdleOthers

CallEncodeURLValues ==
    /\ encodeResult = None
    /\ encodeResult' = EncodeURLValues(encodeInput)
    /\ UNCHANGED <<parseVars, errVars, storeVars, escapeVars, encodeInput, uriVars, otherVars>>

NextEncode == CallEncodeURLValues

SpecEncode == InitEncode /\ [][NextEncode]_vars

(***************************************************************************)
(* The caller of the accessors: a URI is built with New and asked for its  *)
(* transport and its port.                                                 *)
(***************************************************************************)
\* The hosts "A", "A:1", "A:", "A:1:1", "[::]", "[::]:1" and "[:]".
AccessorHosts ==
    {<<65>>, <<65, COLON, 49>>, <<65, COLON>>, <<65, COLON, 49, COLON, 49>>,
     <<LBRACKET, COLON, COLON, RBRACKET>>,
     <<LBRACKET, COLON, COLON, RBRACKET, COLON, 49>>,
     <<LBRACKET, COLON, RBRACKET>>}

\* The values "", "udp", "Tcp", "sctp", "TLS", "tls" and "ws".
TransportValues ==
    {<<>>, <<117, 100, 112>>, <<84, 99, 112>>, <<115, 99, 116, 112>>, TLS,
     <<116, 108, 115>>, <<119, 115>>}

\* No WithParams option, an empty map, a map without the key "transport" (it
\* holds "Transport"), and maps that hold it with no, one or two values.
AccessorParams ==
    {NilStore, KeyValuePairs(FALSE, NilMap),
     KeyValuePairs(FALSE, ToUpper(TransportKey) :> <<TLS>>),
     KeyValuePairs(FALSE, TransportKey :> <<>>)}
    \cup {KeyValuePairs(FALSE, TransportKey :> <<v>>) : v \in TransportValues}
    \cup {KeyValuePairs(FALSE, TransportKey :> <<v, TLS>>) : v \in TransportValues}

InitAccessors ==
    /\ IdleParser
    /\ IdleEscaper
    /\ IdleEncoder
    /\ \E host \in AccessorHosts, secure \in BOOLEAN, params \in AccessorParams :
          sipURI = New(<<>>, host, secure, params)
    /\ transportResult = None
    /\ portResult = None
    /\ IdleOthers

CallTransport ==
    /\ transportResult = None
    /\ transportResult' = Transport(sipURI)
    /\ UNCHANGED <<parseVars, errVars, storeVars, escapeVars, encodeVars, sipURI, portResult, otherVars>>

CallPort ==
    /\ portResult = None
    /\ portResult' = Port(sipURI)
    /\ UNCHANGED <<parseVars, errVars, storeVars, escapeVars, encodeVars, sipURI, transportResult, otherVars>>

NextAccessors ==
    \/ CallTransport
    \/ CallPort

SpecAccessors == InitAccessors /\ [][NextAccessors]_vars

(***************************************************************************)
(* The caller of the parsers with a text that is a scheme and a host.      *)
(***************************************************************************)
\* The longest host that is tried.
MaxHostLen == 5

\* '[', ']', ':', 'A' and '1'
HostAlphabet == {LBRACKET, RBRACKET, COLON, 65, 49}

\* Every host of up to MaxHostLen bytes, and "[::]:1111".
HostTexts ==
    UNION {[1..k -> HostAlphabet] : k \in 0..MaxHostLen}
    \cup {<<LBRACKET, COLON, COLON, RBRACKET, COLON, 49, 49, 49, 49>>}

InitHosts ==
    /\ input \in {SIPProtocol \o a : a \in HostTexts}
    /\ res = None
    /\ lres = None
    /\ out = None
    /\ lout = None
    /\ re = None
    /\ errv = NilError
    /\ target = NilError
    /\ isRes = FALSE
    /\ rawText = <<>>
    /\ sepText = <<>>
    /\ eagerStore = None
    /\ lazyStore = None
    /\ eagerRead = None
    /\ lazyRead = None
    /\ IdleEscaper
    /\ IdleEncoder
    /\ IdleAccessors
    /\ IdleOthers

SpecHosts == InitHosts /\ [][Next]_vars

(***************************************************************************)
(* Readers of one LazyStore.  Several goroutines hold a pointer to a store *)
(* that Decode has filled and each calls one method on it.  The methods    *)
(* take no lock, so a step is one read or one write of a field of the      *)
(* store, and the steps of the readers interleave freely.                  *)
(***************************************************************************)
\* How many goroutines read the store.
NumReaders == 2

Readers == 1..NumReaders

Methods == {"Get", "Encode", "Len", "Empty"}

\* The raw blocks "A=A", "A;A" and "AA"; the separator is ";".
SharedTexts == {<<65, EQUALS, 65>>, <<65, SEMI, 65>>, <<65, 65>>}

\* The key every Get asks for: "A".
SharedKey == <<65>>

\* A reader about to call the method op; inp and sep are the arguments load
\* has read for Decode, ret is what the method returned.
Reader(op) == [op |-> op, pc |-> "call", inp |-> <<>>, sep |-> <<>>, ret |-> None]

InitReaders ==
    /\ input = <<>>
    /\ res = None
    /\ lres = None
    /\ out = None
    /\ lout = None
    /\ re = None
    /\ errv = NilError
    /\ target = NilError
    /\ isRes = FALSE
    /\ rawText \in SharedTexts
    /\ sepText = <<SEMI>>
    /\ eagerStore = None
    /\ lazyStore = None
    /\ eagerRead = None
    /\ lazyRead = None
    /\ IdleEscaper
    /\ IdleEncoder
    /\ IdleAccessors
    /\ escapeMode = 0
    /\ escapeResult = None
    /\ decodeResult = None
    /\ nextText = <<>>
    /\ decodeStep = 0
    /\ shared = LazyStoreDecode(LazyStore(TRUE, NilMap, <<>>, <<>>), rawText, sepText).store
    /\ readers \in {[r \in Readers |-> Reader(ops[r])] : ops \in [Readers -> Methods]}
    /\ decodes = 0

\* The reader r moves to pc with the register or result changes in its record.
Step(r, next) ==
    /\ readers' = [readers EXCEPT ![r] = next]
    /\ UNCHANGED <<parseVars, errVars, storeVars, escapeVars, encodeVars, uriVars,
                   escaperVars, decodeResult, redecodeVars>>

\* load: if s.KeyValuePairs != nil { return }
LoadCheck ==
    \E r \in Readers :
        /\ readers[r].pc = "call"
        /\ readers[r].op # "Empty"
        /\ Step(r, [readers[r] EXCEPT !.pc = IF shared.isNil THEN "input" ELSE "read"])
        /\ UNCHANGED <<shared, decodes>>

\* load: the argument s.input of Decode is read.
LoadInput ==
    \E r \in Readers :
        /\ readers[r].pc = "input"
        /\ Step(r, [readers[r] EXCEPT !.pc = "separator", !.inp = shared.input])
        /\ UNCHANGED <<shared, decodes>>

\* load: the argument s.separator of Decode is read.
LoadSeparator ==
    \E r \in Readers :
        /\ readers[r].pc = "separator"
        /\ Step(r, [readers[r] EXCEPT !.pc = "decode", !.sep = shared.separator])
        /\ UNCHANGED <<shared, decodes>>

\* load: (&s.KeyValuePairs).Decode(...) decodes its arguments and stores the map.
LoadDecode ==
    \E r \in Readers :
        /\ readers[r].pc = "decode"
        /\ LET assign(d) == shared' = [shared EXCEPT !.isNil = d.isNil, !.m = d.m]
           IN  assign(DecodeURLValues(readers[r].inp, readers[r].sep))
        /\ decodes' = decodes + 1
        /\ Step(r, [readers[r] EXCEPT !.pc = "clearInput"])

\* load: s.input = ""
LoadClearInput ==
    \E r \in Readers :
        /\ readers[r].pc = "clearInput"
        /\ shared' = [shared EXCEPT !.input = <<>>]
        /\ Step(r, [readers[r] EXCEPT !.pc = "clearSeparator"])
        /\ UNCHANGED decodes

\* load: s.separator = ""
LoadClearSeparator ==
    \E r \in Readers :
        /\ readers[r].pc = "clearSeparator"
        /\ shared' = [shared EXCEPT !.separator = <<>>]
        /\ Step(r, [readers[r] EXCEPT !.pc = "read"])
        /\ UNCHANGED decodes

\* What s.KeyValuePairs.Get(key), .Encode() and .Len() return on the map m.
MethodOf(op, m, isNil) ==
    IF op = "Get" THEN KeyValuePairsGet(m, isNil, SharedKey)
    ELSE IF op = "Encode" THEN EncodeURLValues(m).s
    ELSE KeyValuePairsLen(m)

\* Get, Encode, Len after load: the method of the embedded map.
ReadMap ==
    \E r \in Readers :
        /\ readers[r].pc = "read"
        /\ Step(r, [readers[r] EXCEPT !.pc = "done",
                                      !.ret = MethodOf(readers[r].op, shared.m, shared.isNil)])
        /\ UNCHANGED <<shared, decodes>>

\* Empty: if s.KeyValuePairs != nil { return s.KeyValuePairs.Empty() }
EmptyCheck ==
    \E r \in Readers :
        /\ readers[r].pc = "call"
        /\ readers[r].op = "Empty"
        /\ Step(r, IF shared.isNil THEN [readers[r] EXCEPT !.pc = "emptyInput"]
                   ELSE [readers[r] EXCEPT !.pc = "done", !.ret = KeyValuePairsEmpty(shared.m)])
        /\ UNCHANGED <<shared, decodes>>

\* Empty: return s.input == ""
EmptyInput ==
    \E r \in Readers :
        /\ readers[r].pc = "emptyInput"
        /\ Step(r, [readers[r] EXCEPT !.pc = "done", !.ret = (shared.input = <<>>)])
        /\ UNCHANGED <<shared, decodes>>

NextReaders ==
    \/ LoadCheck
    \/ LoadInput
    \/ LoadSeparator
    \/ LoadDecode
    \/ LoadClearInput
    \/ LoadClearSeparator
    \/ ReadMap
    \/ EmptyCheck
    \/ EmptyInput

SpecReaders == InitReaders /\ [][NextReaders]_vars

(***************************************************************************)
(* The caller of one LazyStore: Decode, reads, a second Decode on the same *)
(* store, reads again.  The calls follow each other, none overlaps.        *)
(***************************************************************************)
\* The blocks handed to Decode: "A=A", "AA=A", "%41", "AA", "A;AA", "A",
\* "%4" and "%AA".
LazyTexts ==
    {<<65, EQUALS, 65>>, <<65, 65, EQUALS, 65>>, <<PERCENT, 52, 49>>, <<65, 65>>,
     <<65, SEMI, 65, 65>>, <<65>>, <<PERCENT, 52>>, <<PERCENT, 65, 65>>}

\* The separators handed to Decode: the two of the parser, the empty one and
\* the letter "A".
LazySeparators == {<<SEMI>>, <<AMP>>, <<>>, <<65>>}

InitLazy ==
    /\ input = <<>>
    /\ res = None
    /\ lres = None
    /\ out = None
    /\ lout = None
    /\ re = None
    /\ errv = NilError
    /\ target = NilError
    /\ isRes = FALSE
    /\ rawText \in LazyTexts
    /\ sepText \in LazySeparators
    /\ eagerStore = None
    /\ lazyStore = None
    /\ eagerRead = None
    /\ lazyRead = None
    /\ IdleEscaper
    /\ IdleEncoder
    /\ IdleAccessors
    /\ escapeMode = 0
    /\ escapeResult = None
    /\ decodeResult = None
    /\ nextText \in LazyTexts
    /\ decodeStep = 0
    /\ shared = None
    /\ readers = <<>>
    /\ decodes = 0

\* The last Decode on the store returned nil.
LazyDecoded ==
    /\ decodeStep > 0
    /\ ~lazyStore.panic
    /\ lazyStore.err = NilError

\* What load adds to the number of runs of DecodeURLValues: one when the map
\* is nil.
Loads(s) == IF s.isNil THEN 1 ELSE 0

\* var s LazyStore; s.Decode(rawText, sepText)
FirstDecode ==
    /\ decodeStep = 0
    /\ lazyStore' = LazyStoreDecode(LazyStore(TRUE, NilMap, <<>>, <<>>), rawText, sepText)
    /\ decodeStep' = 1
    /\ UNCHANGED <<parseVars, errVars, rawText, sepText, eagerStore, eagerRead, lazyRead,
                   escapeVars, encodeVars, uriVars, escaperVars, decodeResult, nextText,
                   readerVars>>

\* s.Decode(nextText, sepText) on the store the first Decode and the reads left.
SecondDecode ==
    /\ decodeStep = 1
    /\ LazyDecoded
    /\ lazyStore' = LazyStoreDecode(lazyStore.store, nextText, sepText)
    /\ decodeStep' = 2
    /\ lazyRead' = None
    /\ decodes' = 0
    /\ UNCHANGED <<parseVars, errVars, rawText, sepText, eagerStore, eagerRead,
                   escapeVars, encodeVars, uriVars, escaperVars, decodeResult, nextText,
                   shared, readers>>

LazyGet ==
    /\ LazyDecoded
    /\ \E key \in Keys :
          LET got(l) ==
                  /\ lazyRead' = Read("Get", key, l.panic, l.s)
                  /\ lazyStore' = [lazyStore EXCEPT !.store = l.store]
          IN  got(StoreGet(lazyStore.store, key))
    /\ decodes' = decodes + Loads(lazyStore.store)
    /\ UNCHANGED <<parseVars, errVars, rawText, sepText, eagerStore, eagerRead,
                   escapeVars, encodeVars, uriVars, escaperVars, decodeResult,
                   redecodeVars, shared, readers>>

LazyEncode ==
    /\ LazyDecoded
    /\ LET got(l) ==
               /\ lazyRead' = Read("Encode", <<>>, l.panic, l.s)
               /\ lazyStore' = [lazyStore EXCEPT !.store = l.store]
       IN  got(StoreEncode(lazyStore.store))
    /\ decodes' = decodes + Loads(lazyStore.store)
    /\ UNCHANGED <<parseVars, errVars, rawText, sepText, eagerStore, eagerRead,
                   escapeVars, encodeVars, uriVars, escaperVars, decodeResult,
                   redecodeVars, shared, readers>>

LazyLen ==
    /\ LazyDecoded
    /\ LET got(l) ==
               /\ lazyRead' = Read("Len", <<>>, l.panic, l.n)
               /\ lazyStore' = [lazyStore EXCEPT !.store = l.store]
       IN  got(StoreLen(lazyStore.store))
    /\ decodes' = decodes + Loads(lazyStore.store)
    /\ UNCHANGED <<parseVars, errVars, rawText, sepText, eagerStore, eagerRead,
                   escapeVars, encodeVars, uriVars, escaperVars, decodeResult,
                   redecodeVars, shared, readers>>

LazyEmpty ==
    /\ LazyDecoded
    /\ lazyRead' = Read("Empty", <<>>, FALSE, StoreEmpty(lazyStore.store))
    /\ UNCHANGED <<parseVars, errVars, rawText, sepText, eagerStore, lazyStore, eagerRead,
                   escapeVars, encodeVars, uriVars, escaperVars, decodeResult,
                   redecodeVars, readerVars>>

NextLazy ==
    \/ FirstDecode
    \/ SecondDecode
    \/ LazyGet
    \/ LazyEncode
    \/ LazyLen
    \/ LazyEmpty

SpecLazy == InitLazy /\ [][NextLazy]_vars

(***************************************************************************)
(* The caller of the round trip: one map is encoded and the text is handed *)
(* to DecodeURLValues with the separator "&".                              *)
(***************************************************************************)
\* The keys "", "&=" and "%41"; the values "", "%+" and "& =".
RoundTripKeys == {<<>>, <<AMP, EQUALS>>, <<PERCENT, 52, 49>>}

RoundTripValues == {<<>>, <<PERCENT, 43>>, <<AMP, 32, EQUALS>>}

RoundTripLists == UNION {[1..n -> RoundTripValues] : n \in 0..MaxEncodeValues}

RoundTripMaps ==
    UNION {[K -> RoundTripLists] :
              K \in {S \in SUBSET RoundTripKeys : Cardinality(S) <= MaxEncodeKeys}}

InitRoundTrip ==
    /\ IdleParser
    /\ IdleEscaper
    /\ encodeInput \in RoundTripMaps
    /\ encodeResult = None
    /\ IdleAccessors
    /\ IdleOthers

\* DecodeURLValues(EncodeURLValues(encodeInput), "&")
CallDecodeEncoded ==
    /\ encodeResult # None
    /\ ~encodeResult.panic
    /\ decodeResult = None
    /\ decodeResult' = DecodeURLValues(encodeResult.s, <<AMP>>)
    /\ UNCHANGED <<parseVars, errVars, storeVars, escapeVars, encodeVars, uriVars,
                   escaperVars, redecodeVars, readerVars>>

NextRoundTrip ==
    \/ CallEncodeURLValues
    \/ CallDecodeEncoded

SpecRoundTrip == InitRoundTrip /\ [][NextRoundTrip]_vars

(***************************************************************************)
(* The caller of escape: one text is escaped in one mode and the result is *)
(* handed to Unescape.                                                     *)
(***************************************************************************)
\* The longest text that is handed to escape.
MaxPlainLen == 3

\* 'A', ' ', '%', '+' (which the host and the user-info leave as it is) and
\* ':' (which only the host leaves as it is).
PlainAlphabet == {65, 32, PERCENT, 43, COLON}

PlainTexts == UNION {[1..k -> PlainAlphabet] : k \in 0..MaxPlainLen}

InitEscape ==
    /\ IdleParser
    /\ escapeInput \in PlainTexts
    /\ unescapeResult = None
    /\ checkerResult = None
    /\ IdleEncoder
    /\ IdleAccessors
    /\ escapeMode \in {encodeHost, encodeUserPassword, encodeQueryComponent}
    /\ escapeResult = None
    /\ decodeResult = None
    /\ nextText = <<>>
    /\ decodeStep = 0
    /\ shared = None
    /\ readers = <<>>
    /\ decodes = 0

CallEscape ==
    /\ escapeResult = None
    /\ escapeResult' = escape(escapeInput, escapeMode)
    /\ UNCHANGED <<parseVars, errVars, storeVars, escapeVars, encodeVars, uriVars,
                   escapeMode, decodeResult, redecodeVars, readerVars>>

\* Unescape(escape(escapeInput, escapeMode))
CallUnescapeEscaped ==
    /\ escapeResult # None
    /\ ~escapeResult.panic
    /\ unescapeResult = None
    /\ unescapeResult' = Unescape(escapeResult.s)
    /\ UNCHANGED <<parseVars, errVars, storeVars, escapeInput, checkerResult, encodeVars,
                   uriVars, otherVars>>

NextEscape ==
    \/ CallEscape
    \/ CallUnescapeEscaped

SpecEscape == InitEscape /\ [][NextEscape]_vars

(***************************************************************************)
(* The parts of a text as RFC 3261 section 19.1.1 lays them out,           *)
(*     sip:user:password@host;uri-parameters?headers                       *)
(* read off the text itself.                                               *)
(***************************************************************************)
Has(s, c) == \E i \in 1..Len(s) : s[i] = c

\* What stands before the first c of s (all of s when it has none).
Before(s, c) ==
    SubSeq(s, 1, CHOOSE n \in 0..Len(s) :
                    /\ \A i \in 1..n : s[i] # c
                    /\ n = Len(s) \/ s[n + 1] = c)

\* What stands after the first c of s (nothing when it has none).
After(s, c) == SubSeq(s, Len(Before(s, c)) + 2, Len(s))

TextHasScheme(t) == HasPrefix(t, SIPProtocol) \/ HasPrefix(t, SIPSProtocol)

TextRest(t) ==
    IF HasPrefix(t, SIPSProtocol) THEN SubSeq(t, Len(SIPSProtocol) + 1, Len(t))
    ELSE SubSeq(t, Len(SIPProtocol) + 1, Len(t))

TextHasAt(t) == Has(TextRest(t), AT)

TextUserInfo(t) == IF TextHasAt(t) THEN Before(TextRest(t), AT) ELSE <<>>

TextAfterAt(t) == IF TextHasAt(t) THEN After(TextRest(t), AT) ELSE TextRest(t)

TextHadHeader(t) == Has(TextAfterAt(t), QUESTION)

TextHeaders(t) == After(TextAfterAt(t), QUESTION)

TextHostParams(t) == Before(TextAfterAt(t), QUESTION)

TextHadParam(t) == Has(TextHostParams(t), SEMI)

TextParams(t) == After(TextHostParams(t), SEMI)

TextHost(t) == Before(TextHostParams(t), SEMI)

TextHadPass(t) == Has(TextUserInfo(t), COLON)

TextUser(t) == Before(TextUserInfo(t), COLON)

TextPassword(t) == After(TextUserInfo(t), COLON)

\* No byte of s is one the serialiser percent-escapes in the given mode ('%'
\* is escaped in every mode, so s holds no percent-escape either).
NoEscapeNeeded(s, mode) == \A i \in 1..Len(s) : ~shouldEscape(mode, s[i])

\* A block that is one key=value pair of bytes the serialiser leaves alone.
PlainPair(b) ==
    /\ Has(b, EQUALS)
    /\ NoEscapeNeeded(Before(b, EQUALS), encodeQueryComponent)
    /\ NoEscapeNeeded(After(b, EQUALS), encodeQueryComponent)

\* The text is written the way String() writes a URI: a user before every '@',
\* nothing in user, password or host that String() would escape, and each block
\* empty or a single key=value pair.
CanonicalText(t) ==
    /\ TextHasScheme(t)
    /\ TextHasAt(t) => TextUser(t) # <<>>
    /\ NoEscapeNeeded(TextUser(t), encodeUserPassword)
    /\ NoEscapeNeeded(TextPassword(t), encodeUserPassword)
    /\ NoEscapeNeeded(TextHost(t), encodeHost)
    /\ TextParams(t) = <<>> \/ PlainPair(TextParams(t))
    /\ TextHeaders(t) = <<>> \/ PlainPair(TextHeaders(t))

\* String() was called on the record and gave exactly the text t.
Gave(o, t) == o.kind = "returned" /\ o.s = t

StoreMap(store) == IF store.kind = "eager" \/ store.kind = "lazy" THEN store.m ELSE NilMap

SameComponents(u, v) ==
    /\ u.proto = v.proto
    /\ u.user = v.user
    /\ u.pass = v.pass
    /\ u.host = v.host
    /\ StoreMap(Params(u)) = StoreMap(Params(v))
    /\ StoreMap(Headers(u)) = StoreMap(Headers(v))

\* C2: for every input s that Parse accepts, String() gives a text that Parse
\* accepts too, with the same scheme, user, password, host, parameter
\* keys/values and header keys/values as Parse(s).
C2SemanticRoundTrip ==
    /\ Accepted(res) /\ out # None => out.kind = "returned"
    /\ Accepted(res) /\ re # None =>
          /\ Accepted(re)
          /\ SameComponents(res.uri, re.uri)

(***************************************************************************)
(* C3                                                                      *)
(***************************************************************************)
\* The user-info String() wrote: what stands in the text o between the scheme
\* and the host.
WrittenUserInfo(u, o) ==
    LET scheme == IF u.proto = SIPS THEN SIPSProtocol ELSE SIPProtocol
    IN  SubSeq(o, Len(scheme) + 1, Len(scheme) + Len(stringUserInfo(u).s))

\* What String() wrote after the host.
WrittenAfterHost(u, o) ==
    LET scheme == IF u.proto = SIPS THEN SIPSProtocol ELSE SIPProtocol
    IN  SubSeq(o, Len(scheme) + Len(stringUserInfo(u).s)
                      + Len(escape(u.host, encodeHost).s) + 1, Len(o))

\* The delimiters in the text o that String() gave for u are those of the
\* text t that was parsed.  The escaper leaves no ';', '?' or ':' in what it
\* writes for a user, a password or a block, so one found there is a delimiter.
SameDelimiters(u, o, t) ==
    /\ Has(WrittenAfterHost(u, o), SEMI) <=> TextHadParam(t)
    /\ Has(WrittenAfterHost(u, o), QUESTION) <=> TextHadHeader(t)
    /\ Has(WrittenUserInfo(u, o), COLON) <=> TextHadPass(t)

\* C3: for a successfully parsed URI, String() emits ';' if and only if the
\* source had a ';' after the host, '?' if and only if the source had a '?',
\* and the user-info ':' if and only if the source user-info had a ':'.
C3PresenceFlags ==
    /\ Accepted(res) /\ out # None /\ out.kind = "returned"
          => SameDelimiters(res.uri, out.s, input)
    /\ Accepted(lres) /\ lout # None /\ lout.kind = "returned"
          => SameDelimiters(lres.uri, lout.s, input)

(***************************************************************************)
(* C4                                                                      *)
(***************************************************************************)
\* The kind of an error: none, ErrInvalidScheme, or the cause of a
\* MalformedURIError.
ErrorKind(e) ==
    IF e.type = "MalformedURIError" THEN e.Cause ELSE e.type

\* C4: for every input, ParseLazy returns an error exactly when Parse does,
\* of the same kind, and otherwise both return normally.
C4SameErrorSemantics ==
    res # None /\ lres # None =>
        /\ res.kind = "returned"
        /\ lres.kind = "returned"
        /\ ErrorKind(lres.err) = ErrorKind(res.err)

(***************************************************************************)
(* C5                                                                      *)
(***************************************************************************)
\* C5: for any raw text and separator, a KeyValuePairs and a LazyStore that
\* were both given Decode(raw, sep) report identical results for Get(k),
\* Encode(), Len() and Empty().
C5StoreEquivalence ==
    /\ eagerStore # None /\ lazyStore # None =>
          /\ lazyStore.panic = eagerStore.panic
          /\ (lazyStore.err = NilError) <=> (eagerStore.err = NilError)
    /\ eagerRead # None => lazyRead = eagerRead

(***************************************************************************)
(* C6                                                                      *)
(***************************************************************************)
\* Every component of the record is set: the scheme, a host, both stores (a
\* store that is not the EmptyStore holds its decoded pairs or its raw block),
\* and the three presence flags.
Populated(u) ==
    /\ ~u.isNil
    /\ u.proto \in {SIP, SIPS}
    /\ u.host # <<>>
    /\ u.params.kind \in {"empty", "eager", "lazy"}
    /\ u.headers.kind \in {"empty", "eager", "lazy"}
    /\ \A store \in {u.params, u.headers} :
          /\ store.kind = "eager" => ~store.isNil
          /\ store.kind = "lazy" => ~store.isNil \/ store.input # <<>>
    /\ {u.hadPass, u.hadParam, u.hadHeader} \subseteq BOOLEAN

NoPartialRecord(r) ==
    r # None /\ r.kind = "returned" =>
        IF r.err # NilError THEN r.uri = NilURI ELSE Populated(r.uri)

\* C6: whenever Parse or ParseLazy returns a non-nil error the returned *URI
\* is nil, and whenever the error is nil the returned record is non-nil with
\* all components populated.
C6NoPartialRecord ==
    /\ NoPartialRecord(res)
    /\ NoPartialRecord(lres)
    /\ NoPartialRecord(re)

\* Both parsers turned the input down at its last block, the headers, after
\* every other component had been read.
C6Witness ==
    /\ res # None /\ res.kind = "returned"
    /\ lres # None /\ lres.kind = "returned"
    /\ ErrorKind(res.err) = MalformedHeaders
    /\ ErrorKind(lres.err) = MalformedHeaders

(***************************************************************************)
(* C7                                                                      *)
(***************************************************************************)
\* The rules of the parser, each read off the text.
ViolatesScheme(t) == ~TextHasScheme(t)

ViolatesUserPresence(t) == TextHasAt(t) /\ TextUserInfo(t) = <<>>

ViolatesHostPresence(t) == TextHost(t) = <<>>

ViolatesUserEncoding(t) == Unescape(TextUser(t)).err

ViolatesHostValidity(t) ==
    LET valid(host) == ~host.err /\ SplitHostPort(host.s).err = NilError
    IN  ~valid(Unescape(TextHost(t)))

ViolatesParams(t) ==
    TextParams(t) # <<>> /\ DecodeURLValues(TextParams(t), <<SEMI>>).err # NilError

ViolatesHeaders(t) ==
    TextHeaders(t) # <<>> /\ DecodeURLValues(TextHeaders(t), <<AMP>>).err # NilError

\* The first rule the text violates, in the order invalid scheme, missing user,
\* missing host, host validity, malformed params, malformed headers.
FirstViolation(t) ==
    IF ViolatesScheme(t) THEN ErrInvalidScheme.type
    ELSE IF ViolatesUserPresence(t) THEN MissingUser
    ELSE IF ViolatesHostPresence(t) THEN MissingHost
    ELSE IF ViolatesHostValidity(t) THEN MalformedHost
    ELSE IF ViolatesParams(t) THEN MalformedParams
    ELSE IF ViolatesHeaders(t) THEN MalformedHeaders
    ELSE NilError.type

PartOf(cause) ==
    IF cause \in {MissingUser, MalformedUser} THEN "user"
    ELSE IF cause \in {MissingHost, MalformedHost} THEN "host"
    ELSE IF cause = MalformedParams THEN "params"
    ELSE "headers"

\* The earliest part of the text that is defective, in the order user, host,
\* params, headers.
EarliestDefect(t) ==
    IF ViolatesUserPresence(t) \/ ViolatesUserEncoding(t) THEN "user"
    ELSE IF ViolatesHostPresence(t) \/ ViolatesHostValidity(t) THEN "host"
    ELSE IF ViolatesParams(t) THEN "params"
    ELSE "headers"

\* C8: the MalformedURIError Parse returns carries the cause that relates to
\* the earliest defective part of the text: user before host before params
\* before headers.
C8EarliestPart ==
    res # None /\ res.kind = "returned" /\ res.err.type = "MalformedURIError" =>
        PartOf(res.err.Cause) = EarliestDefect(input)

(***************************************************************************)
(* C9                                                                      *)
(***************************************************************************)
\* C9: for every input with an '@' after the scheme, Parse fails (with
\* MissingUser when the text before the first '@' is empty) or returns a
\* record whose User() is not empty.
C9UserMandatory ==
    res # None /\ res.kind = "returned" /\ TextHasScheme(input) /\ TextHasAt(input) =>
        /\ TextUserInfo(input) = <<>> => ErrorKind(res.err) = MissingUser
        /\ Accepted(res) => res.uri.user # <<>>

(***************************************************************************)
(* C10                                                                     *)
(***************************************************************************)
\* C10: errors.Is(e, MalformedURIError{Cause: c}) is true for every
\* MalformedURIError e when c is Unspecified, and otherwise if and only if
\* e.Cause = c.
C10LooseMatching ==
    /\ target # NilError
    /\ errv.type = "MalformedURIError"
    /\ target.type = "MalformedURIError"
    => (isRes <=> (target.Cause = Unspecified \/ target.Cause = errv.Cause))

\* An error of unspecified cause was matched against a target of a specific
\* cause, and did not match.
C10Witness ==
    /\ target # NilError
    /\ errv.type = "MalformedURIError" /\ errv.Cause = Unspecified
    /\ target.type = "MalformedURIError" /\ target.Cause = MissingUser
    /\ ~isRes

(***************************************************************************)
(* C11                                                                     *)
(***************************************************************************)
\* The error is a MalformedURIError of that cause whose Unwrap() is an
\* EscapeError.
WrapsEscapeError(e, cause) ==
    /\ e.type = "MalformedURIError"
    /\ e.Cause = cause
    /\ e.Err.type = "EscapeError"

\* What the parser returned for the text t when, reading user, host, parameter
\* block and header block in that order, the first thing wrong with t is a
\* malformed percent-encoding: the cause names that component and the
\* EscapeError is wrapped.  The eager parser wraps the very error Unescape
\* gave for the component.
EscapeErrorReported(r, t, eager) ==
    IF ViolatesUserEncoding(t)
    THEN /\ WrapsEscapeError(r.err, MalformedUser)
         /\ r.err.Err = EscapeError(Unescape(TextUser(t)).frag)
    ELSE IF Unescape(TextHost(t)).err
    THEN /\ WrapsEscapeError(r.err, MalformedHost)
         /\ r.err.Err = EscapeError(Unescape(TextHost(t)).frag)
    ELSE IF ViolatesHostValidity(t) THEN TRUE
    ELSE IF ViolatesParams(t)
    THEN /\ WrapsEscapeError(r.err, MalformedParams)
         /\ eager => r.err.Err = DecodeURLValues(TextParams(t), <<SEMI>>).err
    ELSE IF ViolatesHeaders(t)
    THEN /\ WrapsEscapeError(r.err, MalformedHeaders)
         /\ eager => r.err.Err = DecodeURLValues(TextHeaders(t), <<AMP>>).err
    ELSE TRUE

EscapeErrorsWrapped(r, t, eager) ==
    r # None /\ r.kind = "returned" =>
        /\ ErrorKind(r.err) \in {MalformedUser, MalformedParams, MalformedHeaders}
              => r.err.Err.type = "EscapeError"
        /\ TextHasScheme(t) /\ ~ViolatesUserPresence(t) /\ ~ViolatesHostPresence(t)
              => EscapeErrorReported(r, t, eager)

\* C11: whenever Parse or ParseLazy fails because of malformed
\* percent-encoding in the user, host, parameter block or header block, the
\* error is a MalformedURIError whose Cause names that component and whose
\* wrapped error is the underlying EscapeError.
C11EscapeErrorWrapped ==
    /\ EscapeErrorsWrapped(res, input, TRUE)
    /\ EscapeErrorsWrapped(lres, input, FALSE)

\* Both parsers turned down a text whose only defect is a malformed
\* percent-encoding in the parameter block.
C11Witness ==
    /\ res # None /\ res.kind = "returned"
    /\ lres # None /\ lres.kind = "returned"
    /\ ~ViolatesUserEncoding(input)
    /\ ~ViolatesHostValidity(input)
    /\ ViolatesParams(input)
    /\ WrapsEscapeError(res.err, MalformedParams)
    /\ WrapsEscapeError(lres.err, MalformedParams)

(***************************************************************************)
(* C12                                                                     *)
(***************************************************************************)
\* The parser accepted t, t has a password part whose percent-encoding is
\* well formed, and Password() returns that part decoded.
PasswordDecoded(r, t) ==
    r # None /\ Accepted(r) /\ TextHadPass(t) /\ ~Unescape(TextPassword(t)).err
        => Password(r.uri) = Unescape(TextPassword(t)).s

\* C12: Password() of a parsed URI returns the percent-decoded password: a
\* valid %XY triplet in the password part of the source comes back as the
\* byte it encodes, as it does in User() and Host().
C12PasswordDecoded ==
    /\ PasswordDecoded(res, input)
    /\ PasswordDecoded(lres, input)

(***************************************************************************)
(* C13                                                                     *)
(***************************************************************************)
\* An accepted text gives a record whose Host() is not empty.
HostNeverEmpty(r) == r # None /\ Accepted(r) => r.uri.host # <<>>

\* The text has a scheme and nothing where the host is written.
TextHostEmpty(t) == TextHasScheme(t) /\ TextHost(t) = <<>>

FailsWith(r, cause) == r.kind = "returned" /\ ErrorKind(r.err) = cause

\* C13 (as stated): every successful parse has Host() # "", and every input
\* whose host part is empty fails with MissingHost.
C13EmptyHostIsMissingHost ==
    \A r \in {res, lres} :
        /\ HostNeverEmpty(r)
        /\ r # None /\ TextHostEmpty(input) => FailsWith(r, MissingHost)

\* C13 (amended): every successful parse has Host() # "", and every input
\* with a scheme whose host part is empty fails: with MissingUser when an '@'
\* has nothing before it, and with MissingHost otherwise.
C13EmptyHostFails ==
    \A r \in {res, lres} :
        /\ HostNeverEmpty(r)
        /\ r # None /\ TextHostEmpty(input) =>
              IF ViolatesUserPresence(input) THEN FailsWith(r, MissingUser)
              ELSE FailsWith(r, MissingHost)

\* Both parsers turned down a text with a user before the '@' and no host
\* after it.
C13Witness ==
    /\ res # None /\ lres # None
    /\ TextHostEmpty(input)
    /\ TextHasAt(input) /\ TextUserInfo(input) # <<>>
    /\ FailsWith(res, MissingHost)
    /\ FailsWith(lres, MissingHost)

(***************************************************************************)
(* C14                                                                     *)
(***************************************************************************)
IsHexDigit(c) == c \in (48..57) \cup (65..70) \cup (97..102)

\* The value of the hex digit c.
HexValue(c) ==
    CHOOSE v \in 0..15 : \/ v < 10 /\ c = 48 + v
                         \/ v >= 10 /\ c \in {55 + v, 87 + v}

\* At index i of x stands a '%' that is not followed by two hex digits.
Offending(x, i) ==
    /\ x[i] = PERCENT
    /\ ~(i + 2 <= Len(x) /\ IsHexDigit(x[i + 1]) /\ IsHexDigit(x[i + 2]))

\* The '%' at index i and the at most two bytes after it.
FragmentAt(x, i) == SubSeq(x, i, IF i + 2 <= Len(x) THEN i + 2 ELSE Len(x))

\* x with every %XY triplet replaced by the byte it encodes, for an x with no
\* offending '%'.
RECURSIVE Decoding(_)
Decoding(x) ==
    IF x = <<>> THEN <<>>
    ELSE IF x[1] = PERCENT
    THEN <<16 * HexValue(x[2]) + HexValue(x[3])>> \o Decoding(SubSeq(x, 4, Len(x)))
    ELSE <<x[1]>> \o Decoding(Tail(x))

UnescapeAsSpecified(x, r) ==
    /\ ~r.panic
    /\ r.err <=> \E i \in 1..Len(x) : Offending(x, i)
    /\ r.err => /\ \E i \in 1..Len(x) : Offending(x, i) /\ r.frag = FragmentAt(x, i)
                /\ Len(r.frag) \in 1..3
                /\ r.s = <<>>
    /\ ~r.err => r.s = Decoding(x)

\* C14: Unescape(x) fails if and only if x contains a '%' that is not followed
\* by two hexadecimal digits; the EscapeError then carries the fragment that
\* starts at such a '%' ("%", "%X" or "%XY"); on success the result is x with
\* every %XY triplet replaced by the byte it encodes and every other byte
\* unchanged; no input makes it index out of range.
C14UnescapeContract ==
    unescapeResult # None => UnescapeAsSpecified(escapeInput, unescapeResult)

\* Unescape decoded a text that holds a triplet and a plain byte.
C14WitnessDecoded ==
    /\ unescapeResult # None
    /\ ~unescapeResult.err
    /\ Has(escapeInput, PERCENT)
    /\ Len(unescapeResult.s) >= 2
    /\ Len(unescapeResult.s) < Len(escapeInput)

\* Unescape turned down a text whose '%' is followed by a byte that is no
\* hex digit, and reported the three bytes.
C14Witness ==
    /\ unescapeResult # None
    /\ unescapeResult.err
    /\ Len(unescapeResult.frag) = 3
    /\ \E i \in 1..Len(escapeInput) : escapeInput[i] = 71

(***************************************************************************)
(* C15                                                                     *)
(***************************************************************************)
\* The error value of an outcome of Unescape or of its checker.
ErrorOf(r) == IF r.err THEN EscapeError(r.frag) ELSE NilError

\* C15: UnescapeErrorChecker agrees with Unescape on every input, the empty
\* and the one-byte texts included: it returns nil exactly when Unescape
\* returns no error, and otherwise the same EscapeError (same fragment).
C15CheckerAgrees ==
    unescapeResult # None /\ checkerResult # None =>
        /\ ~checkerResult.panic
        /\ ErrorOf(checkerResult) = ErrorOf(unescapeResult)

\* The checker returns nil exactly when Unescape returns no error, on every
\* text of two bytes or more.
CheckerSameVerdict ==
    unescapeResult # None /\ checkerResult # None /\ Len(escapeInput) >= 2 =>
        /\ ~checkerResult.panic
        /\ checkerResult.err <=> unescapeResult.err

(***************************************************************************)
(* C16                                                                     *)
(***************************************************************************)
\* The key and the value an item of a block stands for: what is written
\* before its first '=' and what is written after it (nothing without '='),
\* both decoded.
ItemKey(item) == Unescape(Before(item, EQUALS)).s

ItemValue(item) == Unescape(After(item, EQUALS)).s

\* The values of the items of the given key, in the order they are written.
RECURSIVE ValuesOf(_, _)
ValuesOf(items, k) ==
    IF items = <<>> THEN <<>>
    ELSE (IF ItemKey(items[1]) = k THEN <<ItemValue(items[1])>> ELSE <<>>)
         \o ValuesOf(Tail(items), k)

\* The map holds every item of the block under its key, an item without '='
\* as an empty value; such an item decodes as the item with '=' appended does.
ItemsDecoded(m, block, c) ==
    LET items == Split(block, c)
    IN  /\ DOMAIN m = {ItemKey(items[i]) : i \in 1..Len(items)}
        /\ \A k \in DOMAIN m : m[k] = ValuesOf(items, k)
        /\ KeyValuePairsLen(m) >= 1
        /\ ~KeyValuePairsEmpty(m)
        /\ \A i \in 1..Len(items) :
              ~Has(items[i], EQUALS) =>
                  /\ ItemKey(items[i]) \in DOMAIN m
                  /\ \E j \in 1..Len(m[ItemKey(items[i])]) : m[ItemKey(items[i])][j] = <<>>
                  /\ DecodeURLValues(items[i], <<c>>)
                        = DecodeURLValues(items[i] \o <<EQUALS>>, <<c>>)

\* A name of bytes the serialiser leaves alone, written without '='.
PlainName(b) == b # <<>> /\ ~Has(b, EQUALS) /\ NoEscapeNeeded(b, encodeQueryComponent)

\* The text is a scheme, a host the serialiser leaves alone, and one parameter
\* or one header that is a plain name.
HostAndName(t) ==
    /\ TextHasScheme(t)
    /\ ~TextHasAt(t)
    /\ NoEscapeNeeded(TextHost(t), encodeHost)
    /\ \/ TextHadParam(t) /\ ~TextHadHeader(t) /\ PlainName(TextParams(t))
       \/ TextHadHeader(t) /\ ~TextHadParam(t) /\ PlainName(TextHeaders(t))

\* C16: a parameter or header written without '=' is decoded as a key holding
\* one empty value for it, the same as the item written with a trailing '=',
\* and the key is present (Len counts it, Empty is false); each item is split
\* on its first '=' only; String() writes such an item as 'name='.
C16ValuelessItem ==
    /\ res # None /\ Accepted(res) /\ TextParams(input) # <<>>
          => ItemsDecoded(StoreMap(Params(res.uri)), TextParams(input), SEMI)
    /\ res # None /\ Accepted(res) /\ TextHeaders(input) # <<>>
          => ItemsDecoded(StoreMap(Headers(res.uri)), TextHeaders(input), AMP)
    /\ Accepted(res) /\ out # None /\ HostAndName(input)
          => Gave(out, input \o <<EQUALS>>)
    /\ Accepted(lres) /\ lout # None /\ HostAndName(input)
          => Gave(lout, input \o <<EQUALS>>)

\* Parse decoded a text whose one parameter is a plain name, and String()
\* wrote it back with '=' appended.
C16Witness ==
    /\ res # None /\ Accepted(res) /\ out # None
    /\ HostAndName(input)
    /\ TextHadParam(input)
    /\ StoreMap(Params(res.uri)) = (TextParams(input) :> << <<>> >>)
    /\ Gave(out, input \o <<EQUALS>>)

(***************************************************************************)
(* C17                                                                     *)
(***************************************************************************)
\* "0123456789ABCDEF"
UpperHexDigits == <<48, 49, 50, 51, 52, 53, 54, 55, 56, 57, 65, 66, 67, 68, 69, 70>>

\* A byte the query-component mode writes as it is: a letter, a digit or one
\* of '-', '_', '.', '~'.
QueryUnreserved(c) ==
    \/ c \in (48..57) \cup (65..90) \cup (97..122)
    \/ c \in {45, 95, 46, 126}

\* s percent-encoded in the query-component mode with upper-case hex.
RECURSIVE QueryEscaped(_)
QueryEscaped(s) ==
    IF s = <<>> THEN <<>>
    ELSE (IF QueryUnreserved(s[1]) THEN <<s[1]>>
          ELSE <<PERCENT, UpperHexDigits[(s[1] \div 16) + 1], UpperHexDigits[(s[1] % 16) + 1]>>)
         \o QueryEscaped(Tail(s))

\* a stands before b in the lexicographic order of byte strings.
LexBefore(a, b) ==
    \E i \in 1..Len(b) :
        /\ \A j \in 1..(i - 1) : j <= Len(a) /\ a[j] = b[j]
        /\ i > Len(a) \/ (i <= Len(a) /\ a[i] < b[i])

\* The keys of m in lexicographic order.
SortedKeys(m) ==
    CHOOSE q \in [1..Cardinality(DOMAIN m) -> DOMAIN m] :
        \A i, j \in DOMAIN q : i < j => LexBefore(q[i], q[j])

\* key=value for the values from the n-th on, each led by '&'.
RECURSIVE PairsOfKey(_, _, _)
PairsOfKey(k, vals, n) ==
    IF n > Len(vals) THEN <<>>
    ELSE <<AMP>> \o QueryEscaped(k) \o <<EQUALS>> \o QueryEscaped(vals[n])
         \o PairsOfKey(k, vals, n + 1)

RECURSIVE PairsOfKeys(_, _, _)
PairsOfKeys(m, keys, n) ==
    IF n > Len(keys) THEN <<>>
    ELSE PairsOfKey(keys[n], m[keys[n]], 1) \o PairsOfKeys(m, keys, n + 1)

\* The pairs of m in sorted key order and stored value order, joined by '&':
\* every pair led by '&', less the first '&'.
EncodedAsSpecified(m) ==
    LET all == PairsOfKeys(m, SortedKeys(m), 1)
    IN  IF all = <<>> THEN <<>> ELSE Tail(all)

\* C17: Encode gives, for every map, the pairs key=value with keys in
\* lexicographic order, each key once per value in stored order, keys and
\* values percent-encoded in the query-component mode with upper-case hex
\* (a space as %20, never '+'), joined by single '&' with none leading or
\* trailing.
C17EncodeDeterministic ==
    encodeResult # None =>
        /\ ~encodeResult.panic
        /\ encodeResult.s = EncodedAsSpecified(encodeInput)

\* The same for the maps in which some key holds a value.
EncodeOfSomeValue ==
    encodeResult # None /\ (\E k \in DOMAIN encodeInput : encodeInput[k] # <<>>) =>
        /\ ~encodeResult.panic
        /\ encodeResult.s = EncodedAsSpecified(encodeInput)

(***************************************************************************)
(* C18                                                                     *)
(***************************************************************************)
\* The record holds a parameter named "transport".
TransportPresent(sipuri) == TransportKey \in DOMAIN StoreMap(Params(sipuri))

\* The first value of the parameter ("" when it holds none).
TransportValue(sipuri) ==
    IF TransportPresent(sipuri) /\ StoreMap(Params(sipuri))[TransportKey] # <<>>
    THEN StoreMap(Params(sipuri))[TransportKey][1]
    ELSE <<>>

\* a with its ASCII lower-case letters in upper case.
UpperCased(a) ==
    [i \in 1..Len(a) |-> IF a[i] \in 97..122 THEN a[i] - 32 ELSE a[i]]

SchemeTransport(sipuri) == IF sipuri.proto = SIPS THEN TCP ELSE UDP

\* C18 (as stated): Transport() returns the upper-cased value of the
\* 'transport' parameter when that parameter is present, and otherwise UDP
\* for a sip: URI and TCP for a sips: URI.
C18TransportWhenPresent ==
    transportResult # None =>
        /\ ~transportResult.panic
        /\ transportResult.s =
              IF TransportPresent(sipURI) THEN UpperCased(TransportValue(sipURI))
              ELSE SchemeTransport(sipURI)

\* C18 (amended): Transport() returns the upper-cased first value of the
\* 'transport' parameter when that value is not empty, and otherwise (no such
\* parameter, or one without a value or with an empty first value) UDP for a
\* sip: URI and TCP for a sips: URI.
C18TransportWhenNotEmpty ==
    transportResult # None =>
        /\ ~transportResult.panic
        /\ transportResult.s =
              IF TransportValue(sipURI) # <<>> THEN UpperCased(TransportValue(sipURI))
              ELSE SchemeTransport(sipURI)

\* Transport() was asked of a record whose transport parameter is written in
\* lower case, and answered in upper case.
C18Witness ==
    /\ transportResult # None
    /\ TransportValue(sipURI) # <<>>
    /\ TransportValue(sipURI) # UpperCased(TransportValue(sipURI))
    /\ transportResult.s = UpperCased(TransportValue(sipURI))

(***************************************************************************)
(* C19                                                                     *)
(***************************************************************************)
NoColonOrBracket(a) == \A i \in 1..Len(a) : a[i] \notin {COLON, LBRACKET, RBRACKET}

\* a is "[" ... "]" with no further bracket inside.
Bracketed(a) ==
    /\ Len(a) >= 2
    /\ a[1] = LBRACKET
    /\ a[Len(a)] = RBRACKET
    /\ \A i \in 2..(Len(a) - 1) : a[i] \notin {LBRACKET, RBRACKET}

\* The host is name ":" port or "[" address "]" ":" port, cut at index i.
HostWithPortAt(a, i) ==
    /\ a[i] = COLON
    /\ NoColonOrBracket(SubSeq(a, i + 1, Len(a)))
    /\ NoColonOrBracket(SubSeq(a, 1, i - 1)) \/ Bracketed(SubSeq(a, 1, i - 1))

\* The port written in the host ("" when none is).
ExplicitPort(a) ==
    IF \E i \in 1..Len(a) : HostWithPortAt(a, i)
    THEN SubSeq(a, (CHOOSE i \in 1..Len(a) : HostWithPortAt(a, i)) + 1, Len(a))
    ELSE <<>>

\* What Transport() is to return for the record.
TransportOf(sipuri) ==
    IF TransportValue(sipuri) # <<>> THEN UpperCased(TransportValue(sipuri))
    ELSE SchemeTransport(sipuri)

DefaultPort(sipuri) ==
    IF sipuri.proto = SIPS THEN Port5061
    ELSE IF TransportOf(sipuri) \in {UDP, TCP, SCTP} THEN Port5060
    ELSE IF TransportOf(sipuri) = TLS THEN Port5061
    ELSE <<>>

\* C19: Port() returns the explicit port of the host when one is present;
\* otherwise 5061 for sips:; otherwise, for sip:, 5060 when Transport() is
\* UDP, TCP or SCTP, 5061 when it is TLS, and the empty string for any other
\* transport.
C19PortDefaults ==
    portResult # None =>
        /\ ~portResult.panic
        /\ portResult.s =
              IF ExplicitPort(sipURI.host) # <<>> THEN ExplicitPort(sipURI.host)
              ELSE DefaultPort(sipURI)

\* Port() was asked of a sips: record without a port whose transport alone
\* would give 5060, and answered 5061.
C19Witness ==
    /\ portResult # None
    /\ sipURI.proto = SIPS
    /\ ExplicitPort(sipURI.host) = <<>>
    /\ TransportOf(sipURI) = TCP
    /\ portResult.s = Port5061

\* Port() was asked of a record whose host carries a port, and answered it.
C19WitnessExplicit ==
    /\ portResult # None
    /\ ExplicitPort(sipURI.host) # <<>>
    /\ portResult.s = ExplicitPort(sipURI.host)

(***************************************************************************)
(* C20                                                                     *)
(***************************************************************************)
ColonsIn(a) == Cardinality({i \in 1..Len(a) : a[i] = COLON})

\* A host that begins with '[': the bracket is closed at index e, the colons
\* inside are even in number, and nothing or ':' and a port follows.
BracketClosedAt(a, e) ==
    /\ a[e] = RBRACKET
    /\ \A i \in 1..(e - 1) : a[i] # RBRACKET
    /\ ColonsIn(SubSeq(a, 2, e - 1)) % 2 = 0
    /\ \/ e = Len(a)
       \/ a[e + 1] = COLON /\ NoColonOrBracket(SubSeq(a, e + 2, Len(a)))

\* The structure the host is to have.
HostWellFormed(a) ==
    IF a # <<>> /\ a[1] = LBRACKET
    THEN \E e \in 2..Len(a) : BracketClosedAt(a, e)
    ELSE ColonsIn(a) <= 1

\* The parser got as far as the structure of the host of t, and that host is
\* the text a once decoded.
HostReached(t, a) ==
    /\ TextHasScheme(t)
    /\ ~ViolatesUserPresence(t)
    /\ ~ViolatesHostPresence(t)
    /\ ~ViolatesUserEncoding(t)
    /\ ~Unescape(TextHost(t)).err
    /\ a = Unescape(TextHost(t)).s

\* C20: a host beginning with '[' is accepted only if the bracket is closed by
\* ']', the number of colons inside the brackets is even and what follows the
\* bracket is empty or a ':port' suffix; a host not beginning with '[' may
\* hold at most one colon.  Every violation makes Parse fail with
\* MalformedHost ("sip:[::1"); "[::]" and "[::]:1111" are accepted.
C20HostStructure ==
    res # None =>
        /\ \A a \in {Unescape(TextHost(input)).s} :
              HostReached(input, a) /\ ~HostWellFormed(a)
                  => FailsWith(res, MalformedHost)
        /\ TextRest(input) \in {<<LBRACKET, COLON, COLON, RBRACKET>>,
                                <<LBRACKET, COLON, COLON, RBRACKET, COLON, 49, 49, 49, 49>>}
              => Accepted(res)

\* The half of it for the hosts that do not begin with '[', and for the
\* brackets that are never closed.
PlainHostStructure ==
    res # None =>
        \A a \in {Unescape(TextHost(input)).s} :
            /\ HostReached(input, a)
            /\ \/ a[1] # LBRACKET /\ ColonsIn(a) > 1
               \/ a[1] = LBRACKET /\ \A i \in 1..Len(a) : a[i] # RBRACKET
            => FailsWith(res, MalformedHost)

(***************************************************************************)
(* C21                                                                     *)
(***************************************************************************)
\* C21: when two or more readers concurrently call Get, Encode or Len on the
\* same LazyStore before it has been materialised, the raw text is decoded at
\* most once in every interleaving.
C21DecodedAtMostOnce == decodes <= 1

(***************************************************************************)
(* C22                                                                     *)
(***************************************************************************)
\* What one reader alone obtains from the raw block once it is decoded.
SequentialResult(op) ==
    MethodOf(op, DecodeURLValues(rawText, sepText).m, FALSE)

AllDone == \A r \in DOMAIN readers : readers[r].pc = "done"

\* C22: every reader of a shared LazyStore obtains from its first Get, Encode
\* or Len, in every interleaving, what a single sequential reader obtains from
\* the fully decoded raw text, and the store ends up holding the contents of
\* the raw text.
C22ConsistentView ==
    shared # None =>
        /\ \A r \in DOMAIN readers :
              readers[r].pc = "done" /\ readers[r].op # "Empty"
                  => readers[r].ret = SequentialResult(readers[r].op)
        /\ AllDone /\ decodes > 0
              => ~shared.isNil /\ shared.m = DecodeURLValues(rawText, sepText).m

(***************************************************************************)
(* C30                                                                     *)
(***************************************************************************)
\* C30: Empty() run concurrently with another reader's first Get, Encode or
\* Len on a store holding non-empty raw text returns false in every
\* interleaving.
C30EmptyUnsynchronised ==
    shared # None /\ rawText # <<>> =>
        \A r \in DOMAIN readers :
            readers[r].pc = "done" /\ readers[r].op = "Empty" => readers[r].ret = FALSE

(***************************************************************************)
(* C23                                                                     *)
(***************************************************************************)
\* Empty() of the lazy store now, after a first Get/Encode/Len (load), and of
\* the eager store decoded from the same text, are one value.
EmptyAgrees ==
    /\ StoreEmpty(LazyStoreLoad(lazyStore.store).store) = StoreEmpty(lazyStore.store)
    /\ StoreEmpty(lazyStore.store) = StoreEmpty(eagerStore.store)

\* A KeyValuePairs, a LazyStore and an EmptyStore that were never populated
\* all report Empty() = true.
NeverPopulatedEmpty ==
    /\ StoreEmpty(KeyValuePairs(TRUE, NilMap))
    /\ StoreEmpty(LazyStore(TRUE, NilMap, <<>>, <<>>))
    /\ StoreEmpty(LazyStoreLoad(LazyStore(TRUE, NilMap, <<>>, <<>>)).store)
    /\ StoreEmpty(EmptyStore)

\* C23: for any raw text given to LazyStore.Decode, Empty() returns the same
\* value before and after the first Get/Encode/Len, and that value equals
\* Empty() of an eager KeyValuePairs decoded from the same text; the
\* never-populated stores all report Empty() = true.
C23EmptyStable ==
    /\ NeverPopulatedEmpty
    /\ eagerStore # None /\ lazyStore # None =>
          /\ ~lazyStore.panic
          /\ EmptyAgrees
    /\ lazyRead # None /\ lazyRead.op = "Empty" => lazyRead = eagerRead

\* The same for the raw texts on which LazyStore.Decode returns at all.
EmptyStableWhenReturned ==
    eagerStore # None /\ lazyStore # None /\ ~lazyStore.panic => EmptyAgrees

\* The same for the raw texts on which both Decode calls return nil.
EmptyStableWhenDecoded ==
    /\ NeverPopulatedEmpty
    /\ Decoded => EmptyAgrees
    /\ lazyRead # None /\ lazyRead.op = "Empty" => lazyRead = eagerRead

(***************************************************************************)
(* C24                                                                     *)
(***************************************************************************)
\* x with exactly the bytes the mode must escape written as %XY in upper-case
\* hex, and every other byte as it is.
RECURSIVE EscapedInMode(_, _)
EscapedInMode(x, mode) ==
    IF x = <<>> THEN <<>>
    ELSE (IF shouldEscape(mode, x[1])
          THEN <<PERCENT, UpperHexDigits[(x[1] \div 16) + 1], UpperHexDigits[(x[1] % 16) + 1]>>
          ELSE <<x[1]>>)
         \o EscapedInMode(Tail(x), mode)

\* C24: for every mode and every byte string x, escape(x, mode) percent-encodes
\* exactly the bytes for which shouldEscape is true in that mode and leaves
\* every other byte literal, and Unescape(escape(x, mode)) = x.
C24EscapeByMode ==
    /\ escapeResult # None =>
          /\ ~escapeResult.panic
          /\ escapeResult.s = EscapedInMode(escapeInput, escapeMode)
    /\ escapeResult # None /\ unescapeResult # None =>
          /\ ~unescapeResult.panic
          /\ ~unescapeResult.err
          /\ unescapeResult.s = escapeInput

\* The same whenever escape returns.
EscapeByModeWhenReturned ==
    /\ escapeResult # None /\ ~escapeResult.panic =>
          escapeResult.s = EscapedInMode(escapeInput, escapeMode)
    /\ escapeResult # None /\ unescapeResult # None =>
          /\ ~unescapeResult.panic
          /\ ~unescapeResult.err
          /\ unescapeResult.s = escapeInput

(***************************************************************************)
(* C27                                                                     *)
(***************************************************************************)
\* C27: for every URI returned by Parse or ParseLazy, String() returns a
\* string without panicking, also when the user or the host mixes a byte its
\* mode must escape with a byte its mode permits unescaped.
C27StringTotal ==
    /\ Accepted(res) /\ out # None => out.kind = "returned"
    /\ Accepted(lres) /\ lout # None => lout.kind = "returned"

\* The same for the records whose user, password and host hold no byte that
\* the query-component mode escapes and their own mode does not.
ModesAgree(a, mode) ==
    \A i \in 1..Len(a) :
        shouldEscape(encodeQueryComponent, a[i]) => shouldEscape(mode, a[i])

EscapedAlike(sipuri) ==
    /\ ModesAgree(sipuri.user, encodeUserPassword) \/ NoEscapeNeeded(sipuri.user, encodeUserPassword)
    /\ ModesAgree(sipuri.pass, encodeUserPassword) \/ NoEscapeNeeded(sipuri.pass, encodeUserPassword)
    /\ ModesAgree(sipuri.host, encodeHost) \/ NoEscapeNeeded(sipuri.host, encodeHost)

StringTotalWhenEscapedAlike ==
    /\ Accepted(res) /\ out # None /\ EscapedAlike(res.uri) => out.kind = "returned"
    /\ Accepted(lres) /\ lout # None /\ EscapedAlike(lres.uri) => lout.kind = "returned"

(***************************************************************************)
(* C25                                                                     *)
(***************************************************************************)
\* What holds of a store between its first Decode, which returned nil, and the
\* next one: before any load it holds no map but the text and the separator,
\* after a load it holds a map, and DecodeURLValues ran at most once.
DeferredAndMemoised ==
    /\ decodes = 0 =>
           /\ lazyStore.store.isNil
           /\ lazyStore.store.input = rawText
           /\ lazyStore.store.separator = sepText
    /\ decodes > 0 => ~lazyStore.store.isNil
    /\ decodes <= 1

\* C25: LazyStore.Decode only records the text and the separator, the map is
\* built by the first Get, Encode or Len, and in the reads that follow one
\* Decode the map is built at most once.
C25LazyMemoised == decodeStep = 1 /\ LazyDecoded => DeferredAndMemoised

\* The same for the two separators the parser uses.
MemoisedForParserSeparators ==
    decodeStep = 1 /\ LazyDecoded /\ sepText \in {<<SEMI>>, <<AMP>>} => DeferredAndMemoised

(***************************************************************************)
(* C28                                                                     *)
(***************************************************************************)
\* What a read of a KeyValuePairs decoded from the text gives.
ReadOf(store, op, key) ==
    IF op = "Get" THEN Read(op, key, FALSE, StoreGet(store, key).s)
    ELSE IF op = "Len" THEN Read(op, key, FALSE, StoreLen(store).n)
    ELSE IF op = "Empty" THEN Read(op, key, FALSE, StoreEmpty(store))
    ELSE Read(op, key, StoreEncode(store).panic, StoreEncode(store).s)

Reflects(text) ==
    LET same(d) ==
            ~d.panic /\ d.err = NilError =>
                lazyRead = ReadOf(d.store, lazyRead.op, lazyRead.key)
    IN  same(KeyValuePairsDecode(text, sepText))

\* C28: after a Decode that returned nil, Get, Encode, Len and Empty give what
\* the text of that Decode holds, also when the store was decoded and read
\* before.
C28DecodeReplaces ==
    /\ decodeStep = 1 /\ LazyDecoded /\ lazyRead # None => Reflects(rawText)
    /\ decodeStep = 2 /\ LazyDecoded /\ lazyRead # None => Reflects(nextText)

\* The reads after the first Decode give what its text holds.
FirstDecodeReflected ==
    decodeStep = 1 /\ LazyDecoded /\ lazyRead # None => Reflects(rawText)

\* The reads after a second Decode of the same text, or of a store that was
\* not loaded in between, give what the text holds.
SecondDecodeReflectedWhenNotLoaded ==
    decodeStep = 2 /\ LazyDecoded /\ lazyRead # None /\ lazyStore.store.isNil
        => Reflects(nextText)

(***************************************************************************)
(* C26                                                                     *)
(***************************************************************************)
\* The map a block stands for: every key written in it with the values of its
\* items in the order they are written, no key at all for an empty block.
BlockMap(block, c) ==
    LET items == Split(block, c)
    IN  IF block = <<>> THEN NilMap
        ELSE [k \in {ItemKey(items[i]) : i \in 1..Len(items)} |-> ValuesOf(items, k)]

\* What the store holds once it is read: a LazyStore builds its map on the
\* first read.
Contents(store) ==
    IF store.kind = "lazy" THEN LazyStoreLoad(store).store.m ELSE StoreMap(store)

BlocksKept(sipuri) ==
    /\ Contents(Params(sipuri)) = BlockMap(TextParams(input), SEMI)
    /\ Contents(Headers(sipuri)) = BlockMap(TextHeaders(input), AMP)

\* C26: after a successful Parse or ParseLazy, Params() holds exactly the
\* parameter block and Headers() exactly the header block; decoding the
\* headers neither overwrites nor drops the parameters.
C26HeadersIntoHeaders ==
    /\ res # None /\ Accepted(res) => BlocksKept(res.uri)
    /\ lres # None /\ Accepted(lres) => BlocksKept(lres.uri)

\* Both parsers accepted a text with a parameter block and a different header
\* block, and each record holds both.
C26Witness ==
    /\ res # None /\ Accepted(res)
    /\ lres # None /\ Accepted(lres)
    /\ TextParams(input) # <<>>
    /\ TextHeaders(input) # <<>>
    /\ BlockMap(TextParams(input), SEMI) # BlockMap(TextHeaders(input), AMP)
    /\ Contents(Params(res.uri)) # Contents(Headers(res.uri))
    /\ Contents(Params(lres.uri)) # Contents(Headers(lres.uri))
    /\ BlocksKept(res.uri)
    /\ BlocksKept(lres.uri)

(***************************************************************************)
(* C29                                                                     *)
(***************************************************************************)
\* The map has a key, and every key holds a value.
EveryKeyValued(m) == DOMAIN m # {} /\ \A k \in DOMAIN m : Len(m[k]) >= 1

\* C29: for a map with at least one key in which every key holds at least one
\* value, EncodeURLValues returns, DecodeURLValues of its text with "&"
\* succeeds, and the map it returns has the same keys and, per key, the same
\* values in the same order.
C29RoundTrip ==
    /\ encodeResult # None /\ EveryKeyValued(encodeInput) => ~encodeResult.panic
    /\ decodeResult # None /\ EveryKeyValued(encodeInput) =>
           /\ ~decodeResult.panic
           /\ decodeResult.err = NilError
           /\ ~decodeResult.isNil
           /\ DOMAIN decodeResult.m = DOMAIN encodeInput
           /\ \A k \in DOMAIN encodeInput : decodeResult.m[k] = encodeInput[k]

\* A map of two keys holding '&', '=' and '%', one of them with two values,
\* came back from the round trip.
C29Witness ==
    /\ decodeResult # None
    /\ EveryKeyValued(encodeInput)
    /\ DOMAIN encodeInput = {<<AMP, EQUALS>>, <<PERCENT, 52, 49>>}
    /\ encodeInput[<<AMP, EQUALS>>] = <<<<AMP, 32, EQUALS>>, <<>>>>
    /\ encodeInput[<<PERCENT, 52, 49>>] = <<<<PERCENT, 43>>>>
    /\ decodeResult.m = encodeInput

====
